---- MODULE Spec2Model ----
(***************************************************************************)
(* Model of the walkie-talkie server: one WebSocket connection with its    *)
(* Session, the receive loop of ConnectionHandler, the response task that  *)
(* drives ClaudeClient.stream_response, the TTS consumer task, and the     *)
(* SessionRegistry (idle reaper, shutdown).  The pure helpers (PathSandbox,*)
(* check_command_safety, the file tools) are operators checked under their *)
(* own specifications further down.                                        *)
(*                                                                         *)
(*   Spec          any inbound frame, a small LLM                          *)
(*   SpecResponse  text messages and interrupts, a rich LLM, TTS           *)
(*   SpecToolUse   one text message, tool rounds, no TTS engine            *)
(*   SpecRounds    an LLM that never stops asking for tools                *)
(*   SpecSandbox   PathSandbox.resolve over paths and symbolic links       *)
(*   SpecTools     the file tools over paths and glob patterns             *)
(*   SpecBash      check_command_safety and _tool_bash over strings        *)
(***************************************************************************)
EXTENDS Integers, Sequences, FiniteSets, TLC

VARIABLES
    cfg,         \* settings and environment of this run (never changes)
    inbox,       \* frames the client has sent and ws.receive() has not yet returned
    nsent,       \* number of frames the client has sent so far
    hpc,         \* position of ConnectionHandler.handle: "recv", "await_response", "returned"
    session,     \* the Session dataclass
    registered,  \* session_id in SessionRegistry._sessions
    resp,        \* the response tasks created so far (index = response id), each with its TTS consumer
                 \* and the frames the two have written to the socket
    sent,        \* frames the receive loop has written since its last ws.receive()
    probe        \* input and result of a pure helper (PathSandbox, command filter, file tools)

vars == <<cfg, inbox, nsent, hpc, session, registered, resp, sent, probe>>

(***************************************************************************)
(* Bounds of the model.                                                    *)
(***************************************************************************)
MaxFrames == 3          \* frames one client sends on a connection (Spec)
MaxTurnFrames == 2      \* frames one client sends on a connection (SpecResponse)
MaxPending == 1         \* frames waiting in the socket for ws.receive()
MaxInputs == 1          \* text_message and image_message frames one client sends
MaxDeltas == 2          \* text deltas the LLM streams in one response
MaxModelRounds == 2     \* assistant turns with tool_use the LLM produces in one response
MaxTools == 2           \* tool_use blocks in one assistant turn
MaxChunks == 1          \* audio chunks synthesize() yields for one segment

(***************************************************************************)
(* Program constants.                                                      *)
(***************************************************************************)
MAX_TOOL_ROUNDS == 15
MAX_TOKENS_HISTORY == 100000
max_conversation_turns == 50
MIC == 1
TTS == 2

Workspaces == {"demo", "lab"}      \* names of the configured workspaces
NoWorkspace == "none"              \* Session.workspace_name = None
DefaultExecutor == "workspace_root" \* ClaudeClient.executor, used when session.tool_executor is None

(***************************************************************************)
(* Inbound frames.  A text frame carries a document: `shape` is what       *)
(* json.loads makes of it, `type` the value under the key "type", `fields` *)
(* whether the other keys validate against the pydantic class, `name` the  *)
(* workspace name of select_workspace, `chars` the length of `text`.       *)
(***************************************************************************)
INCOMING_TYPES ==
    {"audio_start", "audio_end", "text_message", "image_message",
     "interrupt", "ping", "select_workspace"}

TextFrame(shape, type, fields, name, chars) ==
    [kind |-> "text", shape |-> shape, type |-> type, fields |-> fields,
     name |-> name, chars |-> chars, data |-> <<>>]

BytesFrame(data) ==
    [kind |-> "bytes", shape |-> "-", type |-> "-", fields |-> "-",
     name |-> "-", chars |-> 0, data |-> data]

DisconnectFrame ==
    [kind |-> "disconnect", shape |-> "-", type |-> "-", fields |-> "-",
     name |-> "-", chars |-> 0, data |-> <<>>]

Msg(type) == TextFrame("object", type, "ok", "-", 0)

ValidFrames ==
    {Msg(t) : t \in {"audio_start", "audio_end", "interrupt", "ping"}}
    \cup {TextFrame("object", "select_workspace", "ok", n, 0) : n \in Workspaces \cup {"nope"}}
    \cup {TextFrame("object", "text_message", "ok", "-", 2)}
    \cup {TextFrame("object", "image_message", "ok", "-", c) : c \in {0}}

\* Text frames that are not a valid inbound message.
InvalidFrames ==
    {TextFrame("malformed", "-", "-", "-", 0),          \* not JSON
     TextFrame("array", "-", "-", "-", 0),              \* JSON, not an object: [1]
     TextFrame("object", "<absent>", "ok", "-", 0),     \* {}  (no "type")
     TextFrame("object", "bogus", "ok", "-", 0),        \* {"type": "bogus"}
     TextFrame("object", "<number>", "ok", "-", 0),     \* {"type": 5}
     TextFrame("object", "<list>", "ok", "-", 0),       \* {"type": ["ping"]}
     TextFrame("object", "text_message", "bad", "-", 0)} \* {"type": "text_message"}  (no "text")

EmptyTextFrame == TextFrame("empty", "-", "-", "-", 0)   \* a text frame of length 0

BinaryFrames ==
    {BytesFrame(<<>>), BytesFrame(<<MIC>>), BytesFrame(<<MIC, 7>>), BytesFrame(<<TTS, 7>>)}

AllFrames ==
    ValidFrames \cup InvalidFrames \cup {EmptyTextFrame} \cup BinaryFrames \cup {DisconnectFrame}

(***************************************************************************)
(* protocol.py: json.loads and parse_incoming.  The result names the       *)
(* exception raised ("none" when the message is built).                    *)
(***************************************************************************)
json_loads(f) ==
    IF f.shape = "malformed" THEN "JSONDecodeError" ELSE "none"

parse_incoming(f) ==
    IF f.shape # "object" THEN "AttributeError"          \* data.get on a list, number, string, None
    ELSE IF f.type = "<list>" THEN "TypeError"           \* INCOMING_TYPES.get(unhashable)
    ELSE IF f.type \notin INCOMING_TYPES THEN "ValueError"   \* cls is None
    ELSE IF f.fields # "ok" THEN "ValueError"            \* pydantic ValidationError
    ELSE "none"

\* Exception that leaves json.loads / parse_incoming in _handle_text.
ParseException(f) ==
    IF json_loads(f) # "none" THEN json_loads(f) ELSE parse_incoming(f)

\* except (json.JSONDecodeError, ValueError) in _handle_text
CaughtInHandleText(exc) == exc \in {"JSONDecodeError", "ValueError"}

(***************************************************************************)
(* Outbound frames.  `r` is the response (task) that wrote the frame, 0    *)
(* for frames written by the receive loop itself.                          *)
(***************************************************************************)
Out(type, r, id, code) == [type |-> type, r |-> r, id |-> id, code |-> code]

Error(code) == Out("error", 0, 0, code)
Pong == Out("pong", 0, 0, "-")
WorkspaceList == Out("workspace_list", 0, 0, "-")
WorkspaceSelected(name) == Out("workspace_selected", 0, 0, name)
Transcription == Out("transcription", 0, 0, "-")
ResponseDelta(r) == Out("response_delta", r, 0, "-")
ResponseEnd(r) == Out("response_end", r, 0, "-")
ToolUse(r, id) == Out("tool_use", r, id, "-")
ToolResult(r, id, success) ==
    Out("tool_result", r, id, IF success THEN "success" ELSE "failure")
TTSStart(r) == Out("tts_start", r, 0, "-")
TTSEnd(r) == Out("tts_end", r, 0, "-")
Audio(r) == Out("audio", r, 0, "-")          \* binary frame, prefix 0x02

(***************************************************************************)
(* session.py: Session.                                                    *)
(***************************************************************************)
Block(type, id, chars) == [type |-> type, id |-> id, chars |-> chars, is_error |-> FALSE]
ResultBlock(id, chars, is_error) ==
    [type |-> "tool_result", id |-> id, chars |-> chars, is_error |-> is_error]
Turn(role, content) == [role |-> role, content |-> content]

RECURSIVE SumChars(_)
SumChars(blocks) ==
    IF blocks = <<>> THEN 0
    ELSE (IF Head(blocks).type \in {"text", "tool_result"} THEN Head(blocks).chars ELSE 0)
         + SumChars(Tail(blocks))

RECURSIVE TotalChars(_)
TotalChars(conv) ==
    IF conv = <<>> THEN 0 ELSE SumChars(Head(conv).content) + TotalChars(Tail(conv))

estimate_tokens(conv) == TotalChars(conv) \div 4

Drop(s, n) == SubSeq(s, n + 1, Len(s))

RECURSIVE TrimTokens(_)
TrimTokens(conv) ==
    IF Len(conv) > 2 /\ estimate_tokens(conv) > MAX_TOKENS_HISTORY
    THEN TrimTokens(Drop(conv, 2))
    ELSE conv

_trim_history(conv, max_turns) ==
    LET max_messages == max_turns * 2
        byCount == IF Len(conv) > max_messages
                   THEN Drop(conv, Len(conv) - max_messages)
                   ELSE conv
    IN  TrimTokens(byCount)

add_user_message(s, content) ==
    [s EXCEPT !.conversation =
        _trim_history(Append(s.conversation, Turn("user", content)),
                      cfg.max_conversation_turns)]

touch(s) == [s EXCEPT !.idle = FALSE]

clear_audio_buffer(s) == [s EXCEPT !.audio_buffer = <<>>]

\* The response task the session's handle points at is still running.
TaskRunning(r) == r # 0 /\ resp[r].pc \notin {"done", "cancelled", "failed"}

cancel_response_session_toggling(s) == [s EXCEPT !.interrupted = ~@]

\* Session.cancel_response: the flag, and Task.cancel() on a task that is not done.
\* Cancelling a task that waits for its TTS consumer cancels the consumer.
cancel_response_session(s) == [s EXCEPT !.interrupted = TRUE]

cancel_task(t) ==
    [t EXCEPT !.must_cancel = TRUE,
              !.tmust = IF t.pc = "await_tts" /\ t.tpc \in {"get", "synth"} THEN TRUE ELSE @]

cancel_response_tasks(s, tasks) ==
    IF TaskRunning(s.response_task)
    THEN [tasks EXCEPT ![s.response_task] = cancel_task(@)]
    ELSE tasks

NewSession ==
    [workspace_name |-> NoWorkspace,
     tool_executor  |-> "none",
     conversation   |-> <<>>,
     audio_buffer   |-> <<>>,
     is_recording   |-> FALSE,
     is_responding  |-> FALSE,
     interrupted    |-> FALSE,
     response_task  |-> 0,
     idle           |-> FALSE]     \* now - last_activity > max_idle


remove_session_keeping_history(s) ==
    [cancel_response_session(s) EXCEPT !.audio_buffer = <<>>]

\* SessionRegistry.remove, on a session found in the registry.
remove_session(s) ==
    [cancel_response_session(s) EXCEPT !.conversation = <<>>, !.audio_buffer = <<>>]

(***************************************************************************)
(* A response task (_run_claude_response with the stream_response          *)
(* generator it drives) and the TTS consumer task it creates.              *)
(*   pc: "created"    scheduled by create_task, not yet run                *)
(*       "stream"     waiting for the next event of the open LLM stream    *)
(*       "tool_sent"  tool_use forwarded, executor.execute not yet entered *)
(*       "tool_exec"  waiting in executor.execute                          *)
(*       "await_tts"  response_end sent, waiting for the consumer          *)
(*       "done" | "cancelled" | "failed"   how the task ended              *)
(*   tpc: "none" (no consumer), "get" (in queue.get), "synth" (waiting for *)
(*       the next chunk of synthesize), "done", "cancelled"                *)
(***************************************************************************)
NewTask ==
    [pc |-> "created", must_cancel |-> FALSE,
     executor |-> "-",        \* active_executor of stream_response
     round |-> 0,             \* _round, the loop variable
     streams |-> 0,           \* LLM streams opened so far
     tool_rounds |-> 0,       \* rounds in which tools were executed
     deltas |-> 0,            \* text deltas the LLM has streamed in this response
     text_chars |-> 0,        \* len(text_so_far)
     pending |-> <<>>,        \* tool_use blocks of the final message still to execute
     tool_results |-> <<>>,   \* tool_results of this round
     running |-> "-",         \* what the call in executor.execute will do (a member of ToolCases)
     next_id |-> 1,           \* the LLM's next tool_use id
     out |-> <<>>,            \* frames the task has written
     tts_buffer |-> <<>>,
     queue |-> <<>>,          \* tts_queue
     tpc |-> "none", tmust |-> FALSE, started |-> FALSE, chunks |-> 0,
     tout |-> <<>>]           \* frames the consumer has written

\* What is left of a task once nothing refers to it: _handle_user_input's finally
\* drops the handle of the finished task; a consumer that has not ended stays a
\* task of the event loop, with its queue.
Dropped(t) ==
    IF t.tpc \in {"get", "synth"}
    THEN [NewTask EXCEPT !.pc = t.pc, !.queue = t.queue, !.tpc = t.tpc,
                         !.started = t.started, !.chunks = t.chunks, !.tout = t.tout]
    ELSE [NewTask EXCEPT !.pc = t.pc]

Connected ==
    /\ inbox = <<>> /\ nsent = 0 /\ hpc = "recv"
    /\ session = NewSession /\ registered = TRUE /\ resp = <<>>
    /\ sent = <<WorkspaceList>>          \* handle(): workspaces are configured

Idle == Connected /\ probe = "-"

\* The engines configured, what the client may send, what the LLM and the TTS
\* engine may do in one response.
Settings(engines, frames, maxFrames, llm) ==
    [tts |-> engines, stt |-> engines,
     max_conversation_turns |-> max_conversation_turns,
     frames |-> frames, maxFrames |-> maxFrames, maxInputs |-> MaxInputs,
     maxPending |-> MaxPending,
     deltaTexts |-> llm.deltaTexts, maxDeltas |-> llm.maxDeltas,
     maxRounds |-> llm.maxRounds, maxTools |-> llm.maxTools,
     toolOutcomes |-> llm.toolOutcomes, maxChunks |-> llm.maxChunks]

(***************************************************************************)
(* The client.                                                             *)
(***************************************************************************)
\* A frame in the socket remembers the response in flight when it was sent.
IsInput(f) == f.kind = "text" /\ f.shape = "object" /\ f.fields = "ok"
              /\ f.type \in {"text_message", "image_message"}

InputsSent == Len(resp) + Len(SelectSeq(inbox, LAMBDA m : IsInput(m.f)))

ClientSend(f) ==
    /\ nsent < cfg.maxFrames
    /\ Len(inbox) < cfg.maxPending
    /\ IsInput(f) => InputsSent < cfg.maxInputs
    /\ \A i \in 1..Len(inbox) : inbox[i].f.kind # "disconnect"
    /\ hpc # "returned"
    /\ inbox' = Append(inbox,
                  [f |-> f,
                   during |-> IF session.is_responding THEN session.response_task ELSE 0])
    /\ nsent' = nsent + 1
    /\ UNCHANGED <<cfg, hpc, session, registered, resp, sent, probe>>

(***************************************************************************)
(* handler.py: ConnectionHandler.handle, the receive loop, one action per  *)
(* way a received frame is handled.                                        *)
(***************************************************************************)
ReceivingWhileAwaiting(f) == hpc # "returned" /\ inbox # <<>> /\ f = Head(inbox).f

\* `raw = await self.ws.receive()` returns the oldest frame in the socket.
Receiving(f) == hpc = "recv" /\ inbox # <<>> /\ f = Head(inbox).f

\* handle()'s finally, then websocket_endpoint's finally (main.py).
CloseConnection(s) ==
    /\ hpc' = "returned"
    /\ resp' = cancel_response_tasks(s, resp)
    /\ session' = IF registered THEN remove_session(s) ELSE cancel_response_session(s)
    /\ registered' = FALSE

\* raw["text"] or raw["bytes"] is empty: neither branch is taken.
RecvEmpty ==
    \E f \in cfg.frames :
        /\ Receiving(f)
        /\ \/ f.kind = "text" /\ f.shape = "empty"
           \/ f.kind = "bytes" /\ f.data = <<>>
        /\ inbox' = Tail(inbox)
        /\ session' = touch(session)
        /\ sent' = <<>>
        /\ UNCHANGED <<cfg, nsent, hpc, registered, resp, probe>>

RecvDisconnect ==
    \E f \in cfg.frames :
        /\ Receiving(f)
        /\ f.kind = "disconnect"
        /\ inbox' = Tail(inbox)
        /\ CloseConnection(touch(session))
        /\ sent' = <<>>
        /\ UNCHANGED <<cfg, nsent, probe>>

IsText(f) == f.kind = "text" /\ f.shape # "empty"

\* _handle_text: json.loads or parse_incoming raises what the except clause catches.
HandleParseError ==
    \E f \in cfg.frames :
        /\ Receiving(f) /\ IsText(f)
        /\ ParseException(f) # "none" /\ CaughtInHandleText(ParseException(f))
        /\ inbox' = Tail(inbox)
        /\ session' = touch(session)
        /\ sent' = <<Error("parse_error")>>
        /\ UNCHANGED <<cfg, nsent, hpc, registered, resp, probe>>

\* _handle_text raises what it does not catch: handle()'s `except Exception` logs
\* it and the loop is left.
HandleTextRaises ==
    \E f \in cfg.frames :
        /\ Receiving(f) /\ IsText(f)
        /\ ParseException(f) # "none" /\ ~CaughtInHandleText(ParseException(f))
        /\ inbox' = Tail(inbox)
        /\ CloseConnection(touch(session))
        /\ sent' = <<>>
        /\ UNCHANGED <<cfg, nsent, probe>>

Parsed(f, type) == IsText(f) /\ ParseException(f) = "none" /\ f.type = type

HandlePing ==
    \E f \in cfg.frames :
        /\ Receiving(f) /\ Parsed(f, "ping")
        /\ inbox' = Tail(inbox)
        /\ session' = touch(session)
        /\ sent' = <<Pong>>
        /\ UNCHANGED <<cfg, nsent, hpc, registered, resp, probe>>

\* _handle_select_workspace
any_workspace(name) == TRUE

\* self.workspaces.get(name) is not None
known_workspace(name) == name \in Workspaces

HandleSelectWorkspace ==
    \E f \in cfg.frames :
        /\ Receiving(f) /\ Parsed(f, "select_workspace")
        /\ inbox' = Tail(inbox)
        /\ IF ~known_workspace(f.name)
           THEN /\ session' = touch(session)
                /\ sent' = <<Error("invalid_workspace")>>
                /\ resp' = resp
           ELSE /\ session' = [cancel_response_session(touch(session)) EXCEPT
                                   !.tool_executor = f.name,
                                   !.workspace_name = f.name,
                                   !.conversation = <<>>]
                /\ resp' = cancel_response_tasks(session, resp)
                /\ sent' = <<WorkspaceSelected(f.name)>>
        /\ UNCHANGED <<cfg, nsent, hpc, registered, probe>>

SpawnWithoutAwait(s, content) ==
    /\ session' = [add_user_message(s, content) EXCEPT
                       !.interrupted = FALSE,
                       !.is_responding = TRUE,
                       !.response_task = Len(resp) + 1]
    /\ resp' = Append(resp, NewTask)
    /\ hpc' = "recv"

SpawnKeepingInterrupted(s, content) ==
    /\ session' = [add_user_message(s, content) EXCEPT
                       !.is_responding = TRUE,
                       !.response_task = Len(resp) + 1]
    /\ resp' = Append(resp, NewTask)
    /\ hpc' = "await_response"

\* _handle_user_input up to `await self.session.response_task`.
Spawn(s, content) ==
    /\ session' = [add_user_message(s, content) EXCEPT
                       !.interrupted = FALSE,
                       !.is_responding = TRUE,
                       !.response_task = Len(resp) + 1]
    /\ resp' = Append(resp, NewTask)
    /\ hpc' = "await_response"

HandleTextMessage ==
    \E f \in cfg.frames :
        /\ Receiving(f) /\ Parsed(f, "text_message")
        /\ inbox' = Tail(inbox)
        /\ Spawn(touch(session), <<Block("text", 0, f.chars)>>)
        /\ sent' = <<>>
        /\ UNCHANGED <<cfg, nsent, registered, probe>>

DefaultImageTextChars == 30    \* len("What do you see in this image?")

\* _handle_image
HandleImage ==
    \E f \in cfg.frames :
        /\ Receiving(f) /\ Parsed(f, "image_message")
        /\ inbox' = Tail(inbox)
        /\ Spawn(touch(session),
                 <<Block("image", 0, 0),
                   Block("text", 0, IF f.chars = 0 THEN DefaultImageTextChars ELSE f.chars)>>)
        /\ sent' = <<>>
        /\ UNCHANGED <<cfg, nsent, registered, probe>>

HandleAudioStart ==
    \E f \in cfg.frames :
        /\ Receiving(f) /\ Parsed(f, "audio_start")
        /\ inbox' = Tail(inbox)
        /\ session' = clear_audio_buffer([touch(session) EXCEPT !.is_recording = TRUE])
        /\ sent' = <<>>
        /\ UNCHANGED <<cfg, nsent, hpc, registered, resp, probe>>

TranscriptChars == 2           \* length of the text the STT engine returns

returns_early_only_without_both(audio_data, stt) == audio_data = <<>> /\ ~stt

\* `if not audio_data or not self.stt` of _handle_audio_end
returns_early(audio_data, stt) == audio_data = <<>> \/ ~stt

\* case AudioEnd() and _handle_audio_end; `heard` is what stt.transcribe does.
HandleAudioEnd ==
    \E f \in cfg.frames, heard \in {"text", "blank", "raises"} :
        /\ Receiving(f) /\ Parsed(f, "audio_end")
        /\ inbox' = Tail(inbox)
        /\ LET s1 == [touch(session) EXCEPT !.is_recording = FALSE]
               audio_data == s1.audio_buffer
               s2 == clear_audio_buffer(s1)
           IN  IF returns_early(audio_data, cfg.stt)
               THEN /\ heard = "blank"
                    /\ session' = s2
                    /\ sent' = IF ~cfg.stt THEN <<Error("stt_unavailable")>> ELSE <<>>
                    /\ UNCHANGED <<hpc, resp>>
               ELSE IF heard = "raises"
               THEN /\ session' = s2
                    /\ sent' = <<Error("stt_error")>>
                    /\ UNCHANGED <<hpc, resp>>
               ELSE IF heard = "blank"
               THEN /\ session' = s2
                    /\ sent' = <<>>
                    /\ UNCHANGED <<hpc, resp>>
               ELSE /\ sent' = <<Transcription>>
                    /\ Spawn(s2, <<Block("text", 0, TranscriptChars)>>)
        /\ UNCHANGED <<cfg, nsent, registered, probe>>

\* _handle_interrupt
HandleInterrupt ==
    \E f \in cfg.frames :
        /\ Receiving(f) /\ Parsed(f, "interrupt")
        /\ inbox' = Tail(inbox)
        /\ session' = cancel_response_session(touch(session))
        /\ resp' = cancel_response_tasks(session, resp)
        /\ sent' = <<>>
        /\ UNCHANGED <<cfg, nsent, hpc, registered, probe>>

\* _handle_binary
_handle_binary_any_prefix(s, data) ==
    IF Len(data) < 2 THEN s
    ELSE IF s.is_recording THEN [s EXCEPT !.audio_buffer = @ \o Tail(data)]
    ELSE s

_handle_binary_while_idle(s, data) ==
    IF Len(data) < 2 THEN s
    ELSE IF Head(data) = MIC THEN [s EXCEPT !.audio_buffer = @ \o Tail(data)]
    ELSE s

\* _handle_binary: prefix = data[0], payload = data[1:]
_handle_binary(s, data) ==
    IF Len(data) < 2 THEN s
    ELSE IF Head(data) = MIC /\ s.is_recording
    THEN [s EXCEPT !.audio_buffer = @ \o Tail(data)]
    ELSE s

HandleBinary ==
    \E f \in cfg.frames :
        /\ Receiving(f) /\ f.kind = "bytes" /\ f.data # <<>>
        /\ inbox' = Tail(inbox)
        /\ session' = _handle_binary(touch(session), f.data)
        /\ sent' = <<>>
        /\ UNCHANGED <<cfg, nsent, hpc, registered, resp, probe>>

ResumeWithoutFinally ==
    /\ hpc = "await_response"
    /\ resp[session.response_task].pc \in {"done", "cancelled", "failed"}
    /\ sent' = sent
    /\ session' = IF resp[session.response_task].pc = "done"
                  THEN [session EXCEPT !.is_responding = FALSE, !.response_task = 0]
                  ELSE session
    /\ resp' = resp
    /\ hpc' = "recv"
    /\ UNCHANGED <<cfg, inbox, nsent, registered, probe>>

ResumeBeforeResponseEnds ==
    /\ hpc = "await_response"
    /\ sent' = sent
    /\ session' = [session EXCEPT !.is_responding = FALSE, !.response_task = 0]
    /\ resp' = resp
    /\ hpc' = "recv"
    /\ UNCHANGED <<cfg, inbox, nsent, registered, probe>>

\* `await self.session.response_task` returns or raises; the except clauses and
\* the finally of _handle_user_input.
ResumeAfterResponse ==
    /\ hpc = "await_response"
    /\ LET r == session.response_task
       IN  /\ resp[r].pc \in {"done", "cancelled", "failed"}
           /\ sent' = IF resp[r].pc = "failed"
                      THEN Append(sent, Error("claude_error"))
                      ELSE sent
    /\ session' = [session EXCEPT !.is_responding = FALSE, !.response_task = 0]
    /\ resp' = [resp EXCEPT ![session.response_task] = Dropped(@)]
    /\ hpc' = "recv"
    /\ UNCHANGED <<cfg, inbox, nsent, registered, probe>>


(***************************************************************************)
(* handler.py: the <speak> extractor of _run_claude_response.  Model text  *)
(* is a sequence of tokens: the two tags, a visible character "x", a blank.*)
(***************************************************************************)
OpenTag == "<speak>"
CloseTag == "</speak>"

DeltaTexts ==
    {<<OpenTag, "x", CloseTag>>, <<OpenTag, "x">>, <<CloseTag>>}

ExhaustedText == <<" ", "x">>    \* "\n\n(Reached maximum tool-use iterations)"

NotTag(c) == c \notin {OpenTag, CloseTag}

\* delta.replace("<speak>", "").replace("</speak>", "")
display_text(delta) == SelectSeq(delta, NotTag)

FirstIndex(seq, tok, from) ==
    LET S == {i \in from..Len(seq) : seq[i] = tok}
    IN  IF S = {} THEN 0 ELSE CHOOSE i \in S : \A j \in S : i <= j

RECURSIVE lstrip(_)
lstrip(seq) ==
    IF seq # <<>> /\ Head(seq) = " " THEN lstrip(Tail(seq)) ELSE seq

RECURSIVE rstrip(_)
rstrip(seq) ==
    IF seq # <<>> /\ seq[Len(seq)] = " " THEN rstrip(SubSeq(seq, 1, Len(seq) - 1)) ELSE seq

strip(seq) == rstrip(lstrip(seq))

\* The while loop around re.search(r"<speak>(.*?)</speak>", tts_buffer, re.DOTALL).
RECURSIVE extract_speak(_, _)
extract_speak(buffer, queue) ==
    LET open == FirstIndex(buffer, OpenTag, 1)
        close == IF open = 0 THEN 0 ELSE FirstIndex(buffer, CloseTag, open + 1)
    IN  IF close = 0
        THEN [buffer |-> buffer, queue |-> queue]
        ELSE LET speak_text == strip(SubSeq(buffer, open + 1, close - 1))
             IN  extract_speak(Drop(buffer, close),
                               IF speak_text # <<>> THEN Append(queue, speak_text) ELSE queue)

NoneItem == <<>>     \* the None sentinel of tts_queue (a queued text is never empty)

(***************************************************************************)
(* client.py: ClaudeClient.stream_response, and handler.py:                *)
(* _run_claude_response, which consumes its events in the same task.  A    *)
(* step runs from one suspension point to the next; its effect is the new  *)
(* task record, the frames written and the new conversation.               *)
(***************************************************************************)
Eff(t, out, conv) == [t |-> t, out |-> out, conv |-> conv]

ToolOutputChars == 3     \* length of a tool's output string

FinishWithoutResponseEnd(r, e) ==
    Eff([e.t EXCEPT !.pc = IF e.t.tpc = "none" THEN "done" ELSE "await_tts",
                    !.queue = IF e.t.tpc = "none" THEN @ ELSE Append(@, NoneItem)],
        e.out,
        e.conv)

\* After the `async for` of _run_claude_response: response_end, then the sentinel.
Finish(r, e) ==
    Eff([e.t EXCEPT !.pc = IF e.t.tpc = "none" THEN "done" ELSE "await_tts",
                    !.queue = IF e.t.tpc = "none" THEN @ ELSE Append(@, NoneItem)],
        Append(e.out, ResponseEnd(r)),
        e.conv)

\* Head of the `for _round` body: the interrupt check, then the stream is opened.
OpenStream(r, e) ==
    IF session.interrupted
    THEN Finish(r, e)
    ELSE Eff([e.t EXCEPT !.pc = "stream", !.streams = @ + 1, !.text_chars = 0],
             e.out, e.conv)

\* The handler's branch for a text_delta event.
ForwardDelta(r, e, delta) ==
    LET ex == extract_speak(e.t.tts_buffer \o delta, e.t.queue)
    IN  Eff(IF cfg.tts
            THEN [e.t EXCEPT !.tts_buffer = ex.buffer, !.queue = ex.queue]
            ELSE e.t,
            IF display_text(delta) # <<>> THEN Append(e.out, ResponseDelta(r)) ELSE e.out,
            e.conv)

RoundsExhaustedLate(round) == round > MAX_TOOL_ROUNDS

\* range(MAX_TOOL_ROUNDS) is used up.
RoundsExhausted(round) == round >= MAX_TOOL_ROUNDS

\* The three events after the loop.
Exhausted(r, e) ==
    IF session.interrupted THEN Finish(r, e) ELSE Finish(r, ForwardDelta(r, e, ExhaustedText))

\* The end of a tool round: the next iteration of the loop, or its end.
NextRound(r, e) ==
    LET e1 == [e EXCEPT !.t.round = @ + 1]
    IN  IF RoundsExhausted(e1.t.round) THEN Exhausted(r, e1) ELSE OpenStream(r, e1)

Apply(r, e) ==
    /\ resp' = [resp EXCEPT ![r] = [e.t EXCEPT !.out = @ \o e.out]]
    /\ session' = [session EXCEPT !.conversation = e.conv]
    /\ UNCHANGED sent

Runnable(r, pc) == resp[r].pc = pc /\ ~resp[r].must_cancel

Now(r) == Eff(resp[r], <<>>, session.conversation)

active_executor_default_only(executor) == DefaultExecutor

\* active_executor = executor or self.executor
active_executor(executor) == IF executor = "none" THEN DefaultExecutor ELSE executor

\* The task's first step: the consumer is created, stream_response is entered.
RespStart(r) ==
    /\ Runnable(r, "created")
    /\ LET t1 == [resp[r] EXCEPT
                     !.tpc = IF cfg.tts THEN "get" ELSE "none",
                     !.executor = active_executor(session.tool_executor)]
       IN  Apply(r, OpenStream(r, Eff(t1, <<>>, session.conversation)))
    /\ UNCHANGED <<cfg, inbox, nsent, hpc, registered, probe>>

RECURSIVE TextChars(_)
TextChars(delta) ==
    IF delta = <<>> THEN 0
    ELSE (IF Head(delta) = OpenTag THEN 7 ELSE IF Head(delta) = CloseTag THEN 8 ELSE 1)
         + TextChars(Tail(delta))

\* The stream delivers a text delta.
StreamTextDelta(r) ==
    /\ Runnable(r, "stream")
    /\ resp[r].deltas < cfg.maxDeltas
    /\ \E delta \in cfg.deltaTexts :
         Apply(r, IF session.interrupted
                  THEN Finish(r, Now(r))
                  ELSE ForwardDelta(r,
                         [Now(r) EXCEPT !.t.deltas = @ + 1,
                                        !.t.text_chars = @ + TextChars(delta)],
                         delta))
    /\ UNCHANGED <<cfg, inbox, nsent, hpc, registered, probe>>

\* The LLM stream raises (connection lost, API error).
StreamFails(r) ==
    /\ Runnable(r, "stream")
    /\ resp' = [resp EXCEPT ![r].pc = "failed"]
    /\ UNCHANGED <<cfg, inbox, nsent, hpc, session, registered, sent, probe>>

\* assistant_content built from the final message: its text, n tool_use blocks.
assistant_content(t, n) ==
    (IF t.text_chars > 0 THEN <<Block("text", 0, t.text_chars)>> ELSE <<>>)
    \o [i \in 1..n |-> Block("tool_use", t.next_id + i - 1, 0)]

\* The stream ends with a final message holding n tool_use blocks.
StreamEnds(r) ==
    /\ Runnable(r, "stream")
    /\ \E n \in 0..cfg.maxTools :
         /\ n > 0 => resp[r].tool_rounds < cfg.maxRounds
         /\ LET t == resp[r]
                content == assistant_content(t, n)
                conv == session.conversation
                appended == Append(conv, Turn("assistant", content))
            IN  Apply(r,
                  IF session.interrupted /\ t.text_chars > 0
                  THEN Finish(r, Now(r))                      \* break at text_done
                  ELSE IF n = 0
                  THEN Finish(r, Eff(t, <<>>, IF content # <<>> THEN appended ELSE conv))
                  ELSE IF session.interrupted
                  THEN Finish(r, Eff(t, <<>>, appended))      \* break at the first tool_use
                  ELSE Eff([t EXCEPT !.pc = "tool_sent",
                                     !.pending = [i \in 1..n |-> t.next_id + i - 1],
                                     !.next_id = @ + n,
                                     !.tool_results = <<>>],
                           <<ToolUse(r, t.next_id)>>,
                           appended))
    /\ UNCHANGED <<cfg, inbox, nsent, hpc, registered, probe>>

\* The generator is resumed after tool_use was forwarded: execute() is entered
\* with a call of one of the kinds the LLM may make.
ToolBegin(r) ==
    /\ Runnable(r, "tool_sent")
    /\ \E case \in cfg.toolOutcomes :
         resp' = [resp EXCEPT ![r].pc = "tool_exec", ![r].running = case]
    /\ UNCHANGED <<cfg, inbox, nsent, hpc, session, registered, sent, probe>>

(***************************************************************************)
(* tool_executor.py: ToolExecutor.execute, by the kind of call it is given.*)
(***************************************************************************)
ToolCases ==
    {"ok", "unknown_tool", "sandbox_escape", "missing_file", "blocked",
     "nonzero_exit", "timeout", "raises"}

\* getattr(self, "_tool_" + tool_name, None), and what the handler then does:
\* it returns a result (a timeout is caught inside _tool_bash), or raises
\* ValueError (PathSandbox.resolve) or another Exception (KeyError, OSError, ...).
handler_call(case) ==
    [found |-> case # "unknown_tool",
     raises |-> IF case = "sandbox_escape" THEN "ValueError"
                ELSE IF case = "raises" THEN "Exception" ELSE "none",
     success |-> case = "ok"]

execute_catches_value_error_only(exc) == exc = "ValueError"

\* except ValueError / except Exception of execute
execute_catches(exc) == exc \in {"ValueError", "Exception"}

\* ToolExecutor.execute: the result dict, or the exception that leaves it.
execute_call(case) ==
    LET h == handler_call(case)
    IN  IF ~h.found THEN [raises |-> "none", success |-> FALSE, output |-> "Unknown tool"]
        ELSE IF h.raises = "none"
        THEN [raises |-> "none", success |-> h.success, output |-> "handler"]
        ELSE IF execute_catches(h.raises)
        THEN [raises |-> "none", success |-> FALSE,
              output |-> IF h.raises = "ValueError" THEN "Safety error" ELSE "Error"]
        ELSE [raises |-> h.raises, success |-> FALSE, output |-> "-"]

ToolResultFrameOtherId(r, t, success) == ToolResult(r, Head(t.pending) + 1, success)

\* The tool_result frame the handler writes for a tool_result event.
ToolResultFrame(r, t, success) == ToolResult(r, Head(t.pending), success)

\* Whether the handler forwards the event it was handed.
Forwards(interrupted) == ~interrupted

\* execute() returns: tool_result is yielded, then the next tool_use or the next
\* round; or execute() raises and the task ends with the exception.
ToolFinish(r) ==
    /\ Runnable(r, "tool_exec")
    /\ LET res == execute_call(resp[r].running)
           success == res.success
       IN
         LET t == [resp[r] EXCEPT !.running = "-"]
             results == Append(t.tool_results,
                               ResultBlock(Head(t.pending), ToolOutputChars, ~success))
             rest == Tail(t.pending)
             conv == session.conversation
             t1 == [t EXCEPT !.pending = rest, !.tool_results = results]
         IN  Apply(r,
               IF res.raises # "none"
               THEN Eff([t EXCEPT !.pc = "failed"], <<>>, conv)
               ELSE IF ~Forwards(session.interrupted)
               THEN Finish(r, Eff(t, <<>>, conv))
               ELSE IF rest # <<>>
               THEN Eff([t1 EXCEPT !.pc = "tool_sent"],
                        <<ToolResultFrame(r, t, success), ToolUse(r, Head(rest))>>,
                        conv)
               ELSE NextRound(r,
                        Eff([t1 EXCEPT !.tool_rounds = @ + 1],
                            <<ToolResultFrame(r, t, success)>>,
                            Append(conv, Turn("user", results)))))
    /\ UNCHANGED <<cfg, inbox, nsent, hpc, registered, probe>>

\* `await tts_task` returns.
RespJoin(r) ==
    /\ Runnable(r, "await_tts")
    /\ resp[r].tpc = "done"
    /\ resp' = [resp EXCEPT ![r].pc = "done"]
    /\ UNCHANGED <<cfg, inbox, nsent, hpc, session, registered, sent, probe>>

\* CancelledError is raised at the task's suspension point; nothing catches it.
RespCancelled(r) ==
    /\ resp[r].must_cancel
    /\ resp[r].pc \notin {"done", "cancelled", "failed"}
    /\ resp[r].pc = "await_tts" => resp[r].tpc \in {"done", "cancelled"}
    /\ resp' = [resp EXCEPT ![r].pc = "cancelled"]
    /\ UNCHANGED <<cfg, inbox, nsent, hpc, session, registered, sent, probe>>

(***************************************************************************)
(* handler.py: _tts_consumer.                                              *)
(***************************************************************************)
\* queue.get() returns.
TtsGet(r) ==
    /\ resp[r].tpc = "get" /\ ~resp[r].tmust
    /\ resp[r].queue # <<>>
    /\ LET t == [resp[r] EXCEPT !.queue = Tail(@)]
           text == Head(resp[r].queue)
       IN  resp' = [resp EXCEPT ![r] =
             IF text = NoneItem
             THEN [t EXCEPT !.tpc = "done",
                            !.tout = IF t.started THEN Append(@, TTSEnd(r)) ELSE @]
             ELSE IF session.interrupted
             THEN t
             ELSE [t EXCEPT !.tpc = "synth", !.started = TRUE, !.chunks = 0,
                            !.tout = IF t.started THEN @ ELSE Append(@, TTSStart(r))]]
    /\ UNCHANGED <<cfg, inbox, nsent, hpc, session, registered, sent, probe>>

TtsChunkUnchecked(r) ==
    /\ resp[r].tpc = "synth" /\ ~resp[r].tmust
    /\ resp[r].chunks < cfg.maxChunks
    /\ resp' = [resp EXCEPT ![r] = [@ EXCEPT !.chunks = @ + 1, !.tout = Append(@, Audio(r))]]
    /\ UNCHANGED <<cfg, inbox, nsent, hpc, session, registered, sent, probe>>

\* synthesize() yields a chunk.
TtsChunk(r) ==
    /\ resp[r].tpc = "synth" /\ ~resp[r].tmust
    /\ resp[r].chunks < cfg.maxChunks
    /\ resp' = [resp EXCEPT ![r] =
         IF session.interrupted
         THEN [@ EXCEPT !.tpc = "get"]
         ELSE [@ EXCEPT !.chunks = @ + 1, !.tout = Append(@, Audio(r))]]
    /\ UNCHANGED <<cfg, inbox, nsent, hpc, session, registered, sent, probe>>

\* synthesize() is exhausted, or raises and the exception is logged.
TtsSegmentEnd(r) ==
    /\ resp[r].tpc = "synth" /\ ~resp[r].tmust
    /\ resp' = [resp EXCEPT ![r].tpc = "get"]
    /\ UNCHANGED <<cfg, inbox, nsent, hpc, session, registered, sent, probe>>

\* CancelledError is raised in the consumer (its awaiter was cancelled).
TtsCancelled(r) ==
    /\ resp[r].tmust /\ resp[r].tpc \in {"get", "synth"}
    /\ resp' = [resp EXCEPT ![r].tpc = "cancelled"]
    /\ UNCHANGED <<cfg, inbox, nsent, hpc, session, registered, sent, probe>>

(***************************************************************************)
(* session.py: SessionRegistry; main.py: lifespan.                         *)
(***************************************************************************)
\* Time passes: the session has now been idle for longer than max_idle.
IdleTimeout ==
    /\ ~session.idle
    /\ session' = [session EXCEPT !.idle = TRUE]
    /\ UNCHANGED <<cfg, inbox, nsent, hpc, registered, resp, sent, probe>>

\* SessionRegistry.remove of a registered session.
Remove ==
    /\ registered
    /\ registered' = FALSE
    /\ session' = remove_session(session)
    /\ resp' = cancel_response_tasks(session, resp)
    /\ UNCHANGED <<cfg, inbox, nsent, hpc, sent, probe>>

\* One sweep of _cleanup_loop.
Reap == session.idle /\ Remove

\* lifespan shutdown: sessions.clear().
Shutdown == Remove

ReceiveLoop ==
    \/ RecvEmpty \/ RecvDisconnect \/ HandleParseError \/ HandleTextRaises
    \/ HandlePing \/ HandleSelectWorkspace \/ HandleTextMessage \/ HandleImage
    \/ HandleAudioStart \/ HandleAudioEnd \/ HandleInterrupt \/ HandleBinary
    \/ ResumeAfterResponse

Tasks ==
    \E r \in DOMAIN resp :
        \/ RespStart(r) \/ StreamTextDelta(r) \/ StreamFails(r) \/ StreamEnds(r)
        \/ ToolBegin(r) \/ ToolFinish(r) \/ RespJoin(r) \/ RespCancelled(r)
        \/ TtsGet(r) \/ TtsChunk(r) \/ TtsSegmentEnd(r) \/ TtsCancelled(r)

Registry == IdleTimeout \/ Reap \/ Shutdown

(***************************************************************************)
(* Spec: a client that sends any frame, an LLM that streams one <speak>    *)
(* segment and asks for one tool per response.                             *)
(***************************************************************************)
SmallLLM ==
    [deltaTexts |-> {<<OpenTag, "x", CloseTag>>}, maxDeltas |-> 1,
     maxRounds |-> 1, maxTools |-> 1, toolOutcomes |-> {"ok"}, maxChunks |-> 1]

Init ==
    /\ cfg \in {Settings(e, AllFrames, MaxFrames, SmallLLM) : e \in BOOLEAN}
    /\ Idle

Next ==
    \/ \E f \in cfg.frames : ClientSend(f)
    \/ ReceiveLoop \/ Tasks \/ Registry

Spec == Init /\ [][Next]_vars

(***************************************************************************)
(* SpecResponse: a client that sends text messages and interrupts, an LLM  *)
(* that streams several deltas, tool rounds and tools, with TTS on.        *)
(***************************************************************************)
TurnFrames == {Msg("interrupt"), TextFrame("object", "text_message", "ok", "-", 2)}

RichLLM ==
    [deltaTexts |-> DeltaTexts, maxDeltas |-> MaxDeltas,
     maxRounds |-> MaxModelRounds, maxTools |-> MaxTools,
     toolOutcomes |-> {"ok"}, maxChunks |-> MaxChunks]

InitResponse ==
    /\ cfg = Settings(TRUE, TurnFrames, MaxTurnFrames, RichLLM)
    /\ Idle

NextResponse ==
    \/ \E f \in cfg.frames : ClientSend(f)
    \/ HandleTextMessage \/ HandleInterrupt \/ ResumeAfterResponse
    \/ Tasks \/ Registry

SpecResponse == InitResponse /\ [][NextResponse]_vars

(***************************************************************************)
(* SpecToolUse: text messages answered without a TTS engine (no API key    *)
(* for it) by an LLM that asks for several tools in several turns.         *)
(***************************************************************************)
ToolLLM ==
    [deltaTexts |-> {<<"x">>}, maxDeltas |-> 1,
     maxRounds |-> MaxModelRounds, maxTools |-> MaxTools,
     toolOutcomes |-> ToolCases, maxChunks |-> 0]

InitToolUse ==
    /\ cfg = [Settings(FALSE, {TextFrame("object", "text_message", "ok", "-", 2)},
                       1, ToolLLM) EXCEPT !.stt = TRUE]
    /\ Idle

ResponseTask ==
    \E r \in DOMAIN resp :
        \/ RespStart(r) \/ StreamTextDelta(r) \/ StreamFails(r) \/ StreamEnds(r)
        \/ ToolBegin(r) \/ ToolFinish(r) \/ RespCancelled(r)

NextToolUse ==
    \/ \E f \in cfg.frames : ClientSend(f)
    \/ HandleTextMessage \/ ResumeAfterResponse
    \/ ResponseTask \/ Registry

SpecToolUse == InitToolUse /\ [][NextToolUse]_vars

(***************************************************************************)
(* Properties of the response pipeline (SpecResponse, SpecToolUse).        *)
(***************************************************************************)
Has(seq, type) == \E i \in 1..Len(seq) : seq[i].type = type

Count(seq, type) == Len(SelectSeq(seq, LAMBDA o : o.type = type))

Ended(t) == t.pc \in {"done", "cancelled", "failed"}

\* The consumer of t will write nothing more: it has ended, or it waits on a
\* queue nobody will ever put to.
ConsumerQuiet(t) ==
    \/ t.tpc \in {"none", "done", "cancelled"}
    \/ t.tpc = "get" /\ t.queue = <<>> /\ Ended(t)

InterruptWaiting(r) ==
    \E i \in 1..Len(inbox) : inbox[i].f = Msg("interrupt") /\ inbox[i].during = r

\* C1: once the client has sent `interrupt` while response r is in flight, the
\* server handles it during r, so no further response_delta of r is written.
C1_NoDeltaAfterInterrupt ==
    [][\A r \in DOMAIN resp :
          InterruptWaiting(r) => Count(resp'[r].out, "response_delta")
                                   <= Count(resp[r].out, "response_delta")]_vars

\* C2: a response task that was cancelled in flight has written response_end, and
\* its consumer, once it can write no more, has written tts_end if it wrote tts_start.
C2_CancelledStillEnds ==
    \A r \in DOMAIN resp :
        (session.response_task = r /\ resp[r].pc = "cancelled") =>
            /\ Has(resp[r].out, "response_end")
            /\ (ConsumerQuiet(resp[r]) /\ Has(resp[r].tout, "tts_start"))
                   => Has(resp[r].tout, "tts_end")

ToolFrames(out) == SelectSeq(out, LAMBDA o : o.type \in {"tool_use", "tool_result"})

\* The tool frames of a response alternate tool_use I, tool_result I, with fresh ids.
Paired(tf) ==
    \A i \in 1..Len(tf) :
        /\ tf[i].type = (IF i % 2 = 1 THEN "tool_use" ELSE "tool_result")
        /\ i % 2 = 0 => tf[i].id = tf[i - 1].id
        /\ \A j \in 1..(i - 1) : (tf[j].type = tf[i].type) => tf[j].id < tf[i].id

\* C3 (as stated): a response that has begun executing tool I does not end, nor
\* write response_end, without having written tool_result I.
C3_ResultOnceExecutionBegan ==
    [][\A r \in DOMAIN resp :
          (resp[r].pc = "tool_exec" /\ resp'[r].pc # "tool_exec") =>
              \E i \in 1..Len(resp'[r].out) :
                  /\ resp'[r].out[i].type = "tool_result"
                  /\ resp'[r].out[i].id = Head(resp[r].pending)]_vars

\* C3 (amended): in every response the tool frames alternate tool_use I,
\* tool_result I in the model's order, all of them before response_end; a
\* tool_use is left without its tool_result only in a response that wrote no
\* more frames because the session was interrupted before the result was forwarded.
C3_ToolResultsPaired ==
    \A r \in DOMAIN resp :
        LET out == resp[r].out
            tf == ToolFrames(out)
        IN  /\ Paired(tf)
            /\ \A i \in 1..Len(out) : out[i].type = "response_end" => i = Len(out)
            /\ (session.response_task = r /\ Len(tf) % 2 = 1
                  /\ (Ended(resp[r]) \/ Has(out, "response_end")))
                   => session.interrupted

C3_Witness ==
    \E r \in DOMAIN resp :
        /\ Count(resp[r].out, "tool_use") = 2
        /\ Count(resp[r].out, "tool_result") = 2
        /\ Has(resp[r].out, "response_end")

FirstOf(seq, type) == CHOOSE i \in 1..Len(seq) : seq[i].type = type /\ \A j \in 1..(i - 1) : seq[j].type # type

LastOf(seq, type) == CHOOSE i \in 1..Len(seq) : seq[i].type = type /\ \A j \in (i + 1)..Len(seq) : seq[j].type # type

\* C4: whatever the outcome of a response, if its consumer wrote an audio frame
\* then tts_start precedes the first one and, once the response can write no
\* more, exactly one tts_end follows the last one.
C4_AudioBracketed ==
    \A r \in DOMAIN resp :
        LET t == resp[r]
        IN  Has(t.tout, "audio") =>
              /\ Has(t.tout, "tts_start")
              /\ FirstOf(t.tout, "tts_start") < FirstOf(t.tout, "audio")
              /\ (Ended(t) /\ ConsumerQuiet(t)) =>
                    /\ Count(t.tout, "tts_end") = 1
                    /\ LastOf(t.tout, "audio") < FirstOf(t.tout, "tts_end")

(***************************************************************************)
(* Properties of the receive loop (Spec).                                  *)
(***************************************************************************)
\* C5: the server never ends the connection on its own: the receive loop is left
\* only on the client's disconnect.
C5_LoopEndsOnlyOnDisconnect ==
    [][hpc' = "returned" /\ hpc # "returned"
          => inbox # <<>> /\ Head(inbox).f.kind = "disconnect"]_vars

SessionState(s) ==
    <<s.conversation, s.is_recording, s.is_responding, s.interrupted,
      s.audio_buffer, s.workspace_name, s.tool_executor>>

\* C6: receiving a text frame that is not a valid inbound message writes exactly
\* one error{parse_error} and leaves the session state as it was.
C6_InvalidFrameIsParseError ==
    [][(hpc = "recv" /\ inbox # <<>> /\ Head(inbox).f \in InvalidFrames
          /\ inbox' = Tail(inbox))
          => /\ sent' = <<Error("parse_error")>>
             /\ SessionState(session') = SessionState(session)]_vars

(***************************************************************************)
(* SpecRounds: one text message, answered by an LLM that asks for a tool   *)
(* in more assistant turns than stream_response allows.                    *)
(***************************************************************************)
AskedRounds == MAX_TOOL_ROUNDS + 1

GreedyLLM ==
    [deltaTexts |-> {<<OpenTag, "x", CloseTag>>}, maxDeltas |-> 1,
     maxRounds |-> AskedRounds, maxTools |-> 1, toolOutcomes |-> {"ok"},
     maxChunks |-> MaxChunks]

InitRounds ==
    /\ cfg = Settings(TRUE, {TextFrame("object", "text_message", "ok", "-", 2)}, 1, GreedyLLM)
    /\ Idle

NextRounds ==
    \/ \E f \in cfg.frames : ClientSend(f)
    \/ HandleTextMessage \/ ResumeAfterResponse
    \/ Tasks \/ Registry

SpecRounds == InitRounds /\ [][NextRounds]_vars

\* C10: for one user input stream_response opens at most MAX_TOOL_ROUNDS LLM
\* streams and runs tools in at most MAX_TOOL_ROUNDS rounds, and after the last
\* of these rounds it ends instead of opening another stream.
C10_RoundsBounded ==
    \A r \in DOMAIN resp :
        /\ resp[r].streams <= MAX_TOOL_ROUNDS
        /\ resp[r].tool_rounds <= MAX_TOOL_ROUNDS
        /\ resp[r].tool_rounds = MAX_TOOL_ROUNDS
              => resp[r].pc \notin {"stream", "tool_sent", "tool_exec"}

C10_Witness ==
    \E r \in DOMAIN resp :
        /\ resp[r].tool_rounds = MAX_TOOL_ROUNDS
        /\ resp[r].streams = MAX_TOOL_ROUNDS
        /\ Has(resp[r].out, "response_end")

(***************************************************************************)
(* utils/safety.py: PathSandbox.  A location of the file system is the     *)
(* sequence of names that leads to it from "/"; a path is absolute or      *)
(* relative and is a sequence of segments, ".." and "." among them.  The   *)
(* file systems considered hold symbolic links without loops (on a loop    *)
(* Path.resolve raises an error of its own).                               *)
(***************************************************************************)
MaxSegs == 3            \* segments of a path handed to PathSandbox.resolve
MaxToolSegs == 1        \* segments of the path argument of a tool
MaxPatternSegs == 2     \* segments of a glob pattern

Root == <<"ws">>        \* PathSandbox.root, canonical since __init__

PathOf(abs, segs) == [abs |-> abs, segs |-> segs]

Dirs == {<<>>, <<"ws">>, <<"ws", "a">>, <<"etc">>}

Files == {<<"ws", "a", "f">>, <<"ws", "g">>, <<"etc", "passwd">>}

Link(at, to) == [at |-> at, to |-> to]

AllLinks ==
    {Link(<<"ws", "ln">>, PathOf(TRUE, <<"etc">>)),                  \* ln -> /etc
     Link(<<"ws", "lnf">>, PathOf(FALSE, <<"..", "etc", "passwd">>))}  \* lnf -> ../etc/passwd

FileSystems == SUBSET AllLinks

Segments == {"..", ".", "ws", "a", "etc", "passwd", "ln", "lnf"}

SeqsUpTo(S, n) == UNION {[1..k -> S] : k \in 0..n}

IsPrefix(a, b) == Len(a) <= Len(b) /\ SubSeq(b, 1, Len(a)) = a

IsLink(links, loc) == \E l \in links : l.at = loc

Target(links, loc) == (CHOOSE l \in links : l.at = loc).to

Nodes(links) == Dirs \cup Files \cup {l.at : l \in links}

\* os.path.realpath: `done` is the canonical location reached, `rest` the
\* segments still to walk.
RECURSIVE realpath(_, _, _)
realpath(links, done, rest) ==
    IF rest = <<>> THEN done
    ELSE LET seg == Head(rest)
             next == Append(done, seg)
         IN  IF seg = "." THEN realpath(links, done, Tail(rest))
             ELSE IF seg = ".."
             THEN realpath(links,
                           IF done = <<>> THEN done ELSE SubSeq(done, 1, Len(done) - 1),
                           Tail(rest))
             ELSE IF IsLink(links, next)
             THEN LET to == Target(links, next)
                  IN  realpath(links, IF to.abs THEN <<>> ELSE done, to.segs \o Tail(rest))
             ELSE realpath(links, next, Tail(rest))

\* Path(...): pathlib drops "." segments and keeps "..".
parse(segs) == SelectSeq(segs, LAMBDA x : x # ".")

WithinRootUnchecked(resolved) == TRUE

\* resolved.relative_to(self.root) does not raise.
WithinRoot(resolved) == IsPrefix(Root, resolved)

\* PathSandbox.resolve: ok, or ValueError("Path escapes sandbox").
resolve(links, path) ==
    LET p == parse(path.segs)
        rel == IF path.abs /\ IsPrefix(Root, p) THEN Drop(p, Len(Root)) ELSE p
        resolved == realpath(links, <<>>, Root \o rel)
    IN  [ok |-> WithinRoot(resolved), path |-> resolved]

\* The connection plays no part in the checks of the helpers.
NoTraffic == Settings(FALSE, {}, 0, SmallLLM)

InitSandbox ==
    /\ cfg = NoTraffic
    /\ Connected
    /\ probe \in {[links |-> l, path |-> PathOf(abs, segs), called |-> FALSE,
                   result |-> [ok |-> FALSE, path |-> <<>>]] :
                     l \in FileSystems, abs \in BOOLEAN, segs \in SeqsUpTo(Segments, MaxSegs)}

Resolve ==
    /\ ~probe.called
    /\ probe' = [probe EXCEPT !.called = TRUE, !.result = resolve(probe.links, probe.path)]
    /\ UNCHANGED <<cfg, inbox, nsent, hpc, session, registered, resp, sent>>

NextSandbox == Resolve

SpecSandbox == InitSandbox /\ [][NextSandbox]_vars

\* C7: for every path, resolve either fails with the escape error or returns a
\* canonical location equal to or beneath the root.
C7_ResolveStaysInRoot ==
    (probe.called /\ probe.result.ok) =>
        /\ IsPrefix(Root, probe.result.path)
        /\ realpath(probe.links, <<>>, probe.result.path) = probe.result.path

\* An absolute path outside the root, with a ".." segment, that resolves.
C7_Witness ==
    /\ probe.called /\ probe.result.ok
    /\ probe.path.abs /\ ~IsPrefix(Root, probe.path.segs)
    /\ \E i \in 1..Len(probe.path.segs) : probe.path.segs[i] = ".."
    /\ probe.result.path # Root

(***************************************************************************)
(* claude/tool_executor.py: the file tools.  Each operator gives the set   *)
(* of canonical locations the tool reads, writes or lists.                 *)
(***************************************************************************)
FileTools == {"read_file", "write_file", "edit_file", "list_directory", "glob", "grep"}

PatternSegments == {"*", "**", "..", "a", "ln", "lnf"}

\* The location the operating system reaches for a path built by the tool.
RealOf(links, lex) == realpath(links, <<>>, lex)

is_dir(links, lex) == RealOf(links, lex) \in Dirs

is_file(links, lex) == RealOf(links, lex) \in Files

Names == {"ws", "a", "f", "g", "etc", "passwd", "ln", "lnf"}

\* os.scandir of a directory.
Entries(links, dir) == {n \in Names : Append(dir, n) \in Nodes(links)}

\* The directories "**" walks: cur and the directories beneath it, links not followed.
Descend(links, cur) ==
    {cur \o Drop(d, Len(RealOf(links, cur))) : d \in {x \in Dirs : IsPrefix(RealOf(links, cur), x)}}

\* Path.glob: the paths the selectors of pattern `pat` yield below `cur`.
RECURSIVE select(_, _, _)
select(links, cur, pat) ==
    IF pat = <<>> THEN {cur}
    ELSE IF ~is_dir(links, cur) THEN {}
    ELSE LET seg == Head(pat)
         IN  IF seg = "*"
             THEN UNION {select(links, Append(cur, n), Tail(pat)) :
                            n \in Entries(links, RealOf(links, cur))}
             ELSE IF seg = "**"
             THEN UNION {select(links, d, Tail(pat)) : d \in Descend(links, cur)}
             ELSE IF seg = ".." \/ Append(RealOf(links, cur), seg) \in Nodes(links)
             THEN select(links, Append(cur, seg), Tail(pat))
             ELSE {}

\* base = inp.get("path", ""): the root when empty, else sandbox.resolve(base).
search_dir(links, base) ==
    IF base.segs = <<>> /\ ~base.abs THEN [ok |-> TRUE, path |-> Root] ELSE resolve(links, base)

\* _tool_read_file, _tool_edit_file
_tool_read_file(links, path) ==
    LET q == resolve(links, path)
    IN  IF q.ok /\ is_file(links, q.path) THEN {q.path} ELSE {}

\* _tool_write_file
_tool_write_file(links, path) ==
    LET q == resolve(links, path) IN IF q.ok THEN {q.path} ELSE {}

\* _tool_list_directory
_tool_list_directory(links, base) ==
    LET d == search_dir(links, base)
    IN  IF d.ok /\ is_dir(links, d.path) THEN {d.path} ELSE {}

\* _tool_glob: the files whose names it returns.
_tool_glob(links, base, pattern) ==
    LET d == search_dir(links, base)
    IN  IF ~d.ok THEN {}
        ELSE {RealOf(links, m) : m \in {x \in select(links, d.path, pattern) : is_file(links, x)}}

DefaultInclude == <<"**", "*">>

HasDotPart(lex) == \E i \in 1..Len(lex) : lex[i] \in {"..", "."}

\* _tool_grep: the files it reads.
_tool_grep(links, base, include) ==
    LET d == search_dir(links, base)
        glob_pat == IF include = <<>> THEN DefaultInclude ELSE include
    IN  IF ~d.ok THEN {}
        ELSE IF is_file(links, d.path) THEN {d.path}
        ELSE {RealOf(links, m) :
                 m \in {x \in select(links, d.path, glob_pat) :
                           is_file(links, x) /\ ~HasDotPart(x)}}

\* ToolExecutor.execute, for the file tools.
execute(links, tool, path, pattern) ==
    IF tool \in {"read_file", "edit_file"} THEN _tool_read_file(links, path)
    ELSE IF tool = "write_file" THEN _tool_write_file(links, path)
    ELSE IF tool = "list_directory" THEN _tool_list_directory(links, path)
    ELSE IF tool = "glob" THEN _tool_glob(links, path, pattern)
    ELSE _tool_grep(links, path, pattern)

ToolInputs ==
    {[tool |-> t, path |-> PathOf(abs, segs), pattern |-> <<>>] :
        t \in FileTools \ {"glob", "grep"}, abs \in BOOLEAN,
        segs \in SeqsUpTo(Segments, MaxToolSegs)}
    \cup {[tool |-> t, path |-> PathOf(FALSE, segs), pattern |-> pat] :
        t \in {"glob", "grep"}, segs \in SeqsUpTo(Segments, MaxToolSegs),
        pat \in SeqsUpTo(PatternSegments, MaxPatternSegs)}

InitTools ==
    /\ cfg = NoTraffic
    /\ Connected
    /\ probe \in {[links |-> l, input |-> i, called |-> FALSE, accessed |-> {}] :
                     l \in FileSystems,
                     i \in {x \in ToolInputs : x.tool = "glob" => x.pattern # <<>>}}

Execute ==
    /\ ~probe.called
    /\ probe' = [probe EXCEPT
                   !.called = TRUE,
                   !.accessed = execute(probe.links, probe.input.tool,
                                        probe.input.path, probe.input.pattern)]
    /\ UNCHANGED <<cfg, inbox, nsent, hpc, session, registered, resp, sent>>

NextTools == Execute

SpecTools == InitTools /\ [][NextTools]_vars

\* C8: every file a file tool reads, writes or lists lies within the root,
\* whatever the path argument and the glob or include pattern.
C8_ToolsStayInRoot ==
    probe.called => \A q \in probe.accessed : IsPrefix(Root, q)

(***************************************************************************)
(* utils/safety.py: check_command_safety; tool_executor.py: _tool_bash.    *)
(* A string is a sequence of characters.                                   *)
(***************************************************************************)
MaxCommandLen == 3      \* characters of a command
MaxPatternLen == 2      \* characters of a blocked pattern
MaxPatterns == 2        \* blocked patterns configured

Chars == {"r", "R", " "}

\* str.lower
lower(str) == [i \in 1..Len(str) |-> IF str[i] = "R" THEN "r" ELSE str[i]]

\* needle in hay
Contains(hay, needle) ==
    \E i \in 0..(Len(hay) - Len(needle)) : SubSeq(hay, i + 1, i + Len(needle)) = needle

None == [none |-> TRUE, pattern |-> <<>>]

Hits(command, blocked_patterns) ==
    {i \in 1..Len(blocked_patterns) :
        Contains(strip(lower(command)), lower(blocked_patterns[i]))}

check_command_safety(command, blocked_patterns) ==
    LET hits == Hits(command, blocked_patterns)
    IN  IF hits = {} THEN None
        ELSE [none |-> FALSE,
              pattern |-> blocked_patterns[CHOOSE i \in hits : \A j \in hits : i <= j]]

\* `if blocked:` : None and the empty string are false.
Truthy(blocked) == ~blocked.none /\ blocked.pattern # <<>>

\* _tool_bash up to the subprocess.
_tool_bash(command, blocked_commands) ==
    LET blocked == check_command_safety(command, blocked_commands)
    IN  IF Truthy(blocked)
        THEN [refused |-> TRUE, pattern |-> blocked.pattern, spawned |-> FALSE]
        ELSE [refused |-> FALSE, pattern |-> <<>>, spawned |-> TRUE]

InitBash ==
    /\ cfg = NoTraffic
    /\ Connected
    /\ probe \in {[command |-> c, blocked_commands |-> b, called |-> FALSE,
                   result |-> [refused |-> FALSE, pattern |-> <<>>, spawned |-> FALSE]] :
                     c \in SeqsUpTo(Chars, MaxCommandLen),
                     b \in SeqsUpTo(SeqsUpTo(Chars, MaxPatternLen), MaxPatterns)}

Bash ==
    /\ ~probe.called
    /\ probe' = [probe EXCEPT !.called = TRUE,
                              !.result = _tool_bash(probe.command, probe.blocked_commands)]
    /\ UNCHANGED <<cfg, inbox, nsent, hpc, session, registered, resp, sent>>

NextBash == Bash

SpecBash == InitBash /\ [][NextBash]_vars

\* C9: the bash tool refuses a command, spawning nothing, exactly when some
\* blocked pattern, lower-cased, is a substring of the lower-cased trimmed
\* command, and the pattern it reports is the first such pattern of the list.
C9_BlockedIffSubstring ==
    probe.called =>
        LET hits == Hits(probe.command, probe.blocked_commands)
        IN  /\ probe.result.refused <=> hits # {}
            /\ probe.result.refused <=> ~probe.result.spawned
            /\ probe.result.refused =>
                  probe.result.pattern =
                      probe.blocked_commands[CHOOSE i \in hits : \A j \in hits : i <= j]

(***************************************************************************)
(* SpecHistory: two text messages, one of them possibly huge, on a server  *)
(* configured with a small max_conversation_turns, answered without TTS by *)
(* an LLM that asks for a tool.                                            *)
(***************************************************************************)
SmallMaxTurns == 1      \* settings.claude.max_conversation_turns of SpecHistory
HugeChars == 400004     \* length of the text of a huge text_message

HistoryFrames == {TextFrame("object", "text_message", "ok", "-", c) : c \in {2, HugeChars}}

HistoryLLM ==
    [deltaTexts |-> {<<"x">>}, maxDeltas |-> 1, maxRounds |-> 2, maxTools |-> 2,
     toolOutcomes |-> {"ok"}, maxChunks |-> 0]

InitHistory ==
    /\ cfg = [Settings(FALSE, HistoryFrames, 2, HistoryLLM) EXCEPT
                 !.max_conversation_turns = SmallMaxTurns, !.maxInputs = 2]
    /\ Idle

NextHistory ==
    \/ \E f \in cfg.frames : ClientSend(f)
    \/ HandleTextMessage \/ ResumeAfterResponse
    \/ ResponseTask \/ Registry

SpecHistory == InitHistory /\ [][NextHistory]_vars

\* C11: the conversation never holds more than 2 * max_conversation_turns
\* messages, whoever appended the last one.
C11_TurnLimit ==
    Len(session.conversation) <= 2 * cfg.max_conversation_turns

\* C12: the token estimate of the conversation never exceeds 100 000, whatever
\* the size of the messages appended.
C12_TokenLimit ==
    estimate_tokens(session.conversation) <= MAX_TOKENS_HISTORY

IsToolResultTurn(turn) ==
    turn.role = "user" /\ \E i \in 1..Len(turn.content) : turn.content[i].type = "tool_result"

\* C13: a trim (add_user_message leaves fewer messages than it found plus the
\* new one) removes an even number of messages and leaves a conversation that
\* begins with a user turn which is not a tool_result turn.
C13_TrimInPairs ==
    [][(hpc = "recv" /\ hpc' = "await_response"
          /\ Len(session'.conversation) < Len(session.conversation) + 1)
          => /\ (Len(session.conversation) + 1 - Len(session'.conversation)) % 2 = 0
             /\ Head(session'.conversation).role = "user"
             /\ ~IsToolResultTurn(Head(session'.conversation))]_vars

BlockIds(content, type) ==
    LET blocks == SelectSeq(content, LAMBDA b : b.type = type)
    IN  [i \in 1..Len(blocks) |-> blocks[i].id]

\* C14: whenever no response is in flight, every assistant turn that holds
\* tool_use blocks is immediately followed by a user turn that holds exactly
\* their tool_result blocks, in the same order.
C14_ToolUseAnswered ==
    ~session.is_responding =>
        \A i \in 1..Len(session.conversation) :
            LET turn == session.conversation[i]
            IN  (turn.role = "assistant" /\ BlockIds(turn.content, "tool_use") # <<>>) =>
                  /\ i < Len(session.conversation)
                  /\ session.conversation[i + 1].role = "user"
                  /\ BlockIds(session.conversation[i + 1].content, "tool_result")
                        = BlockIds(turn.content, "tool_use")
                  /\ Len(session.conversation[i + 1].content)
                        = Len(BlockIds(turn.content, "tool_use"))

\* A response with a turn of two tool_use blocks has ended and its turns are kept.
C14_Witness ==
    /\ ~session.is_responding
    /\ \E i \in 1..Len(session.conversation) :
          /\ session.conversation[i].role = "assistant"
          /\ Len(BlockIds(session.conversation[i].content, "tool_use")) = 2

\* C15: execute never lets a tool failure out: whatever the call, the task goes
\* on, a tool_result with success = false for every failing kind is forwarded
\* and its block, marked is_error, is fed back to the model.
C15_ToolFailuresFedBack ==
    [][\A r \in DOMAIN resp :
          (resp[r].pc = "tool_exec" /\ resp'[r].pc \notin {"tool_exec", "cancelled"}
             /\ ~session.interrupted) =>
              LET id == Head(resp[r].pending)
                  success == resp[r].running = "ok"
                  n == Len(resp[r].out)
                  fed == resp'[r].tool_results
              IN  /\ resp'[r].pc # "failed"
                  /\ Len(resp'[r].out) > n
                  /\ resp'[r].out[n + 1] = ToolResult(r, id, success)
                  /\ \A i \in (n + 1)..Len(resp'[r].out) : resp'[r].out[i].type # "error"
                  /\ fed # <<>>
                  /\ fed[Len(fed)] = ResultBlock(id, ToolOutputChars, ~success)
                  /\ resp'[r].pending = <<>> =>
                        session'.conversation[Len(session'.conversation)]
                            = Turn("user", fed)]_vars

\* A failed call was answered and the response went on to its next stream.
C15_Witness ==
    \E r \in DOMAIN resp :
        /\ resp[r].pc = "stream"
        /\ \E i \in 1..Len(resp[r].out) : resp[r].out[i].code = "failure"
        /\ \E i \in 1..Len(resp[r].tool_results) : resp[r].tool_results[i].is_error

(***************************************************************************)
(* SpecOutput: the size of the output string of each tool handler          *)
(* (tool_executor.py:42-209).  A file, a command's stdout, a match list or *)
(* a directory is n items of `each` characters; strings are kept by length.*)
(***************************************************************************)
MAX_OUTPUT == 50000
max_results == 200

ToolNames ==
    {"read_file", "write_file", "edit_file", "bash", "glob", "grep", "list_directory"}

Min(a, b) == IF a < b THEN a ELSE b
Max(a, b) == IF a > b THEN a ELSE b

RECURSIVE Digits(_)
Digits(n) == IF n < 10 THEN 1 ELSE 1 + Digits(n \div 10)

\* "\n".join(items) for n items of `each` characters
Joined(n, each) == IF n = 0 THEN 0 ELSE n * each + (n - 1)

\* A handler's output: the characters that come from the file, command or
\* listing, whether a "... (truncated" / "... (N total" line follows them, and
\* whether an "Exit code N" line precedes them.
Output(content, suffix, prefix) ==
    [content |-> content, suffix |-> suffix, prefix |-> prefix]

\* lines[start:][:limit] joined, then cut at MAX_OUTPUT
_tool_read_file_output(inp) ==
    LET start == Max(0, inp.offset - 1)
        after == Max(0, inp.n - start)
        kept == IF inp.has_limit THEN Min(after, inp.limit) ELSE after
        output == kept * inp.each
    IN  Output(Min(output, MAX_OUTPUT), output > MAX_OUTPUT, FALSE)

\* "Wrote N chars to <path>"
_tool_write_file_output(inp) ==
    Output(Len("Wrote ") + Digits(inp.n * inp.each) + Len(" chars to ") + inp.path,
           FALSE, FALSE)

_tool_edit_file_output(inp) == Output(Len("Edit applied"), FALSE, FALSE)

\* stdout cut at MAX_OUTPUT, then the exit code put in front
_tool_bash_output(inp) ==
    LET output == inp.n * inp.each
    IN  Output(Min(output, MAX_OUTPUT), output > MAX_OUTPUT, inp.returncode # 0)

\* "\n".join(matches[:500]); each match is a relative path
_tool_glob_output(inp) ==
    IF inp.n = 0 THEN Output(Len("No matches found"), FALSE, FALSE)
    ELSE Output(Joined(Min(inp.n, 500), inp.each), inp.n > 500, FALSE)

\* "\n".join(results[:max_results]); each result is "<rel>:<i>: <line>" for a
\* matching line of the file at inp.path
_tool_grep_output(inp) ==
    IF inp.n = 0 THEN Output(Len("No matches found"), FALSE, FALSE)
    ELSE Output(Joined(Min(inp.n, max_results),
                       inp.path + Len(":") + Digits(inp.n) + Len(": ") + inp.each),
                inp.n > max_results, FALSE)

\* "\n".join(entries)
_tool_list_directory_output(inp) ==
    IF inp.n = 0 THEN Output(Len("(empty directory)"), FALSE, FALSE)
    ELSE Output(Joined(inp.n, inp.each), FALSE, FALSE)

\* result["output"] of execute for a call that reaches its handler's last return
execute_output(tool, inp) ==
    CASE tool = "read_file" -> _tool_read_file_output(inp)
      [] tool = "write_file" -> _tool_write_file_output(inp)
      [] tool = "edit_file" -> _tool_edit_file_output(inp)
      [] tool = "bash" -> _tool_bash_output(inp)
      [] tool = "glob" -> _tool_glob_output(inp)
      [] tool = "grep" -> _tool_grep_output(inp)
      [] tool = "list_directory" -> _tool_list_directory_output(inp)

ItemCounts == {0, 1, 2, 200, 201, 500, 501}
ItemChars == {1, 100, 49999, 50000, 50001, 60000}
NameChars == {1, 100}      \* a relative path or a directory entry is short
OutputInputs ==
    [n : ItemCounts, each : ItemChars, path : {8}, offset : {0, 2},
     has_limit : BOOLEAN, limit : {1}, returncode : {0, 1}]

InitOutput ==
    /\ cfg = NoTraffic
    /\ Connected
    /\ probe \in [tool : ToolNames, inp : OutputInputs, called : {FALSE},
                  result : {Output(0, FALSE, FALSE)}]
    /\ probe.tool \in {"glob", "list_directory"} => probe.inp.each \in NameChars

ExecuteOutput ==
    /\ ~probe.called
    /\ probe' = [probe EXCEPT !.called = TRUE,
                              !.result = execute_output(probe.tool, probe.inp)]
    /\ UNCHANGED <<cfg, inbox, nsent, hpc, session, registered, resp, sent>>

NextOutput == ExecuteOutput

SpecOutput == InitOutput /\ [][NextOutput]_vars

\* C16: whatever the tool and its input, the output carries at most MAX_OUTPUT
\* characters of content (a truncation line may follow it).
C16_OutputCapped ==
    probe.called => probe.result.content <= MAX_OUTPUT

(***************************************************************************)
(* SpecEdit: _tool_edit_file (tool_executor.py:69-86) on a file given by   *)
(* its characters.                                                         *)
(***************************************************************************)
MaxTextLen == 3
MaxOldLen == 2

FileChars == {"a", "\r", "\n"}

\* Path.read_text: text mode with universal newlines, "\r\n" and "\r" are read as "\n"
RECURSIVE read_text(_)
read_text(data) ==
    IF data = <<>> THEN <<>>
    ELSE IF Head(data) = "\r"
    THEN <<"\n">> \o read_text(IF Len(data) > 1 /\ data[2] = "\n"
                               THEN Tail(Tail(data)) ELSE Tail(data))
    ELSE <<Head(data)>> \o read_text(Tail(data))

\* Path.write_text where os.linesep is "\n"
write_text(text) == text

StartsWith(text, old) == Len(old) <= Len(text) /\ SubSeq(text, 1, Len(old)) = old

\* str.count: the number of non-overlapping occurrences, scanning from the
\* left; the empty string is counted between all characters and at both ends
RECURSIVE count(_, _)
count(text, old) ==
    IF old = <<>> THEN Len(text) + 1
    ELSE IF Len(text) < Len(old) THEN 0
    ELSE IF StartsWith(text, old)
    THEN 1 + count(SubSeq(text, Len(old) + 1, Len(text)), old)
    ELSE count(Tail(text), old)

\* str.replace(old, new, 1): the leftmost occurrence is replaced
RECURSIVE replace(_, _, _)
replace(text, old, new) ==
    IF StartsWith(text, old) THEN new \o SubSeq(text, Len(old) + 1, Len(text))
    ELSE IF text = <<>> THEN <<>>
    ELSE <<Head(text)>> \o replace(Tail(text), old, new)

\* _tool_edit_file: the result and the file afterwards (data: the file's
\* characters on disk; regular: whether path.is_file())
_tool_edit_file(regular, data, old, new) ==
    IF ~regular THEN [success |-> FALSE, data |-> data]
    ELSE LET text == read_text(data)
         IN  IF count(text, old) = 0 THEN [success |-> FALSE, data |-> data]
             ELSE IF count(text, old) > 1 THEN [success |-> FALSE, data |-> data]
             ELSE [success |-> TRUE, data |-> write_text(replace(text, old, new))]

InitEdit ==
    /\ cfg = NoTraffic
    /\ Connected
    /\ probe \in [is_file : {TRUE}, data : SeqsUpTo(FileChars, MaxTextLen),
                  old : SeqsUpTo(FileChars, MaxOldLen), new : {<<>>, <<"b">>},
                  called : {FALSE}, result : {[success |-> FALSE, data |-> <<>>]}]
           \cup [is_file : {FALSE}, data : {<<>>}, old : {<<"a">>}, new : {<<"b">>},
                 called : {FALSE}, result : {[success |-> FALSE, data |-> <<>>]}]

EditFile ==
    /\ ~probe.called
    /\ probe' = [probe EXCEPT
                    !.called = TRUE,
                    !.result = _tool_edit_file(probe.is_file, probe.data, probe.old, probe.new)]
    /\ UNCHANGED <<cfg, inbox, nsent, hpc, session, registered, resp, sent>>

NextEdit == EditFile

SpecEdit == InitEdit /\ [][NextEdit]_vars

\* the places of the file at which old_text occurs
Occurrences(data, old) ==
    {i \in 1..(Len(data) - Len(old) + 1) : SubSeq(data, i, i + Len(old) - 1) = old}

\* C17: the edit succeeds exactly when old_text occurs at one place of the
\* file, and then the file is the old one with that occurrence replaced by
\* new_text; otherwise the call fails and the file is as it was.
C17_EditOnlyUniqueOccurrence ==
    (probe.called /\ probe.is_file) =>
        LET occ == Occurrences(probe.data, probe.old)
        IN  IF Cardinality(occ) = 1
            THEN LET i == CHOOSE j \in occ : TRUE
                 IN  /\ probe.result.success
                     /\ probe.result.data =
                            SubSeq(probe.data, 1, i - 1) \o probe.new
                            \o SubSeq(probe.data, i + Len(probe.old), Len(probe.data))
            ELSE /\ ~probe.result.success
                 /\ probe.result.data = probe.data

(***************************************************************************)
(* SpecAudio: a client that records (audio_start, mic chunks, audio_end),  *)
(* with and without the speech engines.                                    *)
(***************************************************************************)
AudioFrames == {Msg("audio_start"), Msg("audio_end"), BytesFrame(<<MIC, 7>>)}

AudioLLM ==
    [deltaTexts |-> {<<"x">>}, maxDeltas |-> 1, maxRounds |-> 1, maxTools |-> 1,
     toolOutcomes |-> {"ok"}, maxChunks |-> 1]

InitAudio ==
    /\ cfg \in {Settings(e, AudioFrames, 3, AudioLLM) : e \in BOOLEAN}
    /\ Idle

NextAudio ==
    \/ \E f \in cfg.frames : ClientSend(f)
    \/ HandleAudioStart \/ HandleBinary \/ HandleAudioEnd \/ ResumeAfterResponse
    \/ Tasks \/ Registry

SpecAudio == InitAudio /\ [][NextAudio]_vars

\* the receive loop takes an audio_end frame while the audio buffer is empty
EmptyAudioEnd ==
    /\ hpc = "recv" /\ inbox # <<>>
    /\ Parsed(Head(inbox).f, "audio_end")
    /\ session.audio_buffer = <<>>
    /\ inbox' = Tail(inbox)

\* C18 (as amended): handling audio_end while the audio buffer is empty starts
\* no response and sends no transcription; it sends nothing at all when an STT
\* engine is configured and exactly one error stt_unavailable when none is.
C18_EmptyAudioEnd ==
    [][EmptyAudioEnd =>
          /\ resp' = resp
          /\ hpc' = "recv"
          /\ ~session'.is_responding
          /\ session'.conversation = session.conversation
          /\ sent' = IF cfg.stt THEN <<>> ELSE <<Error("stt_unavailable")>>]_vars

\* Without an STT engine the first frame was an audio_end: the buffer was
\* empty and stt_unavailable was sent.
C18_Witness ==
    /\ ~cfg.stt /\ nsent = 1 /\ inbox = <<>> /\ hpc = "recv"
    /\ sent = <<Error("stt_unavailable")>>
    /\ resp = <<>>

\* C18: handling audio_end while the audio buffer is empty sends no frame and
\* starts no response, with or without an STT engine.
C18_EmptyAudioEndIsSilent ==
    [][(/\ hpc = "recv" /\ inbox # <<>>
        /\ Parsed(Head(inbox).f, "audio_end")
        /\ session.audio_buffer = <<>>
        /\ inbox' = Tail(inbox))
          => /\ sent' = <<>>
             /\ resp' = resp
             /\ hpc' = "recv"
             /\ ~session'.is_responding]_vars

(***************************************************************************)
(* SpecWorkspace: a client that selects workspaces, configured and not,    *)
(* and sends a text message answered with a tool call.                     *)
(***************************************************************************)
WorkspaceFrames ==
    {TextFrame("object", "select_workspace", "ok", n, 0) : n \in Workspaces \cup {"nope"}}
    \cup {TextFrame("object", "text_message", "ok", "-", 2)}

WorkspaceLLM ==
    [deltaTexts |-> {<<"x">>}, maxDeltas |-> 1, maxRounds |-> 1, maxTools |-> 1,
     toolOutcomes |-> {"ok"}, maxChunks |-> 0]

InitWorkspace ==
    /\ cfg = Settings(FALSE, WorkspaceFrames, 3, WorkspaceLLM)
    /\ Idle

NextWorkspace ==
    \/ \E f \in cfg.frames : ClientSend(f)
    \/ HandleSelectWorkspace \/ HandleTextMessage \/ ResumeAfterResponse
    \/ ResponseTask \/ Registry

SpecWorkspace == InitWorkspace /\ [][NextWorkspace]_vars

\* the receive loop takes a select_workspace frame
SelectWorkspaceStep ==
    /\ hpc = "recv" /\ inbox # <<>>
    /\ Parsed(Head(inbox).f, "select_workspace")
    /\ inbox' = Tail(inbox)

C20_UnknownWorkspaceRejected ==
    [][(SelectWorkspaceStep /\ Head(inbox).f.name \notin Workspaces) =>
          /\ sent' = <<Error("invalid_workspace")>>
          /\ session'.workspace_name = session.workspace_name
          /\ session'.tool_executor = session.tool_executor
          /\ session'.conversation = session.conversation
          /\ session'.interrupted = session.interrupted
          /\ session'.response_task = session.response_task
          /\ session'.is_responding = session.is_responding
          /\ resp' = resp
          /\ hpc' = "recv"]_vars

\* An unknown name was refused after a workspace had been selected and used:
\* the workspace and the conversation are still there.
C20_Witness ==
    /\ sent = <<Error("invalid_workspace")>>
    /\ session.workspace_name \in Workspaces
    /\ session.conversation # <<>>

(***************************************************************************)
(* SpecSpeech: one text message answered, with TTS on, by an LLM that      *)
(* streams complete <speak> segments and asks for no tool.                 *)
(***************************************************************************)
SpeechLLM ==
    [deltaTexts |-> {<<OpenTag, "x", CloseTag>>}, maxDeltas |-> MaxDeltas,
     maxRounds |-> 0, maxTools |-> 0, toolOutcomes |-> {"ok"}, maxChunks |-> MaxChunks]

InitSpeech ==
    /\ cfg = Settings(TRUE, {TextFrame("object", "text_message", "ok", "-", 2)}, 1, SpeechLLM)
    /\ Idle

NextSpeech ==
    \/ \E f \in cfg.frames : ClientSend(f)
    \/ HandleTextMessage \/ ResumeAfterResponse
    \/ Tasks \/ Registry

SpecSpeech == InitSpeech /\ [][NextSpeech]_vars

\* C21: a response whose consumer has written tts_end has written its
\* response_end before (frames are only ever appended).
C21_ResponseEndBeforeTtsEnd ==
    \A r \in DOMAIN resp :
        Has(resp[r].tout, "tts_end") => Has(resp[r].out, "response_end")

\* A response that spoke has ended: tts_start, audio and tts_end were written.
C21_Witness ==
    \E r \in DOMAIN resp :
        /\ Has(resp[r].tout, "audio")
        /\ Has(resp[r].tout, "tts_end")
        /\ Has(resp[r].out, "response_end")

\* C22: in a turn whose output is one complete <speak> segment, tts_start and
\* every audio frame are written before response_end: once response_end is
\* written the consumer writes no tts_start and no audio frame.
C22_SpeechBeforeResponseEnd ==
    [][\A r \in DOMAIN resp :
          (resp[r].deltas = 1 /\ Has(resp[r].out, "response_end")
             /\ ~session.interrupted /\ session.response_task = r) =>
              /\ Count(resp'[r].tout, "tts_start") <= Count(resp[r].tout, "tts_start")
              /\ Count(resp'[r].tout, "audio") <= Count(resp[r].tout, "audio")]_vars

(***************************************************************************)
(* SpecInterrupt: a client that sends interrupts, a workspace selection    *)
(* and a text message, in any order; no TTS.                               *)
(***************************************************************************)
InterruptFrames ==
    {Msg("interrupt"), TextFrame("object", "select_workspace", "ok", "demo", 0),
     TextFrame("object", "text_message", "ok", "-", 2)}

InitInterrupt ==
    /\ cfg = Settings(FALSE, InterruptFrames, 3, WorkspaceLLM)
    /\ Idle

NextInterrupt ==
    \/ \E f \in cfg.frames : ClientSend(f)
    \/ HandleInterrupt \/ HandleSelectWorkspace \/ HandleTextMessage
    \/ ResumeAfterResponse \/ ResponseTask \/ Registry

SpecInterrupt == InitInterrupt /\ [][NextInterrupt]_vars

\* C23: a response task is spawned with interrupted = false, and while it runs
\* uncancelled the flag stays false, so no interrupt check of the response
\* (client.py:59, handler.py:196) cuts it short.
C23_SpawnedUninterrupted ==
    [][/\ Len(resp') > Len(resp) => ~session'.interrupted
       /\ \A r \in DOMAIN resp' :
             (r = session'.response_task /\ ~Ended(resp'[r]) /\ ~resp'[r].must_cancel)
                => ~session'.interrupted]_vars

\* After a workspace selection (which sets the flag) a response ran to its end
\* and stored its assistant turn.
C23_Witness ==
    \E r \in DOMAIN resp :
        /\ r = session.response_task /\ resp[r].pc = "done"
        /\ session.workspace_name \in Workspaces
        /\ ~session.interrupted
        /\ Has(resp[r].out, "response_end")
        /\ \E i \in 1..Len(session.conversation) : session.conversation[i].role = "assistant"

\* the receive loop takes an interrupt frame
InterruptStep ==
    /\ hpc = "recv" /\ inbox # <<>>
    /\ Parsed(Head(inbox).f, "interrupt")
    /\ inbox' = Tail(inbox)

\* C24: handling interrupt with no response in flight sets interrupted, cancels
\* nothing and writes no frame; when the flag is already set (a repeated
\* interrupt) the session state is left as it was.
C24_InterruptIdempotent ==
    [][InterruptStep =>
          /\ session'.interrupted
          /\ SessionState(session') = SessionState([session EXCEPT !.interrupted = TRUE])
          /\ session'.response_task = session.response_task
          /\ resp' = resp
          /\ sent' = <<>>
          /\ hpc' = "recv"
          /\ session.interrupted => SessionState(session') = SessionState(session)]_vars

\* Two interrupts were handled and nothing else.
C24_Witness ==
    /\ nsent = 2 /\ inbox = <<>> /\ hpc = "recv"
    /\ resp = <<>> /\ session.workspace_name = NoWorkspace
    /\ session.interrupted /\ sent = <<>>

(***************************************************************************)
(* SpecTurns: a client that sends text, image and voice input, several     *)
(* turns in a row, answered with TTS on by an LLM that asks for no tool.    *)
(***************************************************************************)
TurnsFrames ==
    {TextFrame("object", "text_message", "ok", "-", 2), Msg("image_message"),
     Msg("audio_start"), BytesFrame(<<MIC, 7>>), Msg("audio_end")}

TurnsLLM ==
    [deltaTexts |-> {<<OpenTag, "x", CloseTag>>}, maxDeltas |-> 1,
     maxRounds |-> 0, maxTools |-> 0, toolOutcomes |-> {"ok"}, maxChunks |-> 1]

InitTurns ==
    /\ cfg = [Settings(TRUE, TurnsFrames, 3, TurnsLLM) EXCEPT !.maxInputs = 2]
    /\ Idle

NextTurns ==
    \/ \E f \in cfg.frames : ClientSend(f)
    \/ HandleTextMessage \/ HandleImage
    \/ HandleAudioStart \/ HandleBinary \/ HandleAudioEnd
    \/ ResumeAfterResponse \/ Tasks \/ Registry

SpecTurns == InitTurns /\ [][NextTurns]_vars

InFlight == {r \in DOMAIN resp : ~Ended(resp[r])}

\* C25: at most one response task of the session is in flight at any time, and
\* a response task creates its TTS consumer in its first step only, so at most
\* one per task.
C25_OneResponseOneConsumer ==
    [][/\ Cardinality({r \in DOMAIN resp' : ~Ended(resp'[r])}) <= 1
       /\ \A r \in DOMAIN resp :
             (resp[r].tpc = "none" /\ resp'[r].tpc # "none") =>
                 resp[r].pc = "created" /\ resp'[r].pc # "created"]_vars

\* A second response is in flight with its consumer after the first has ended.
C25_Witness ==
    /\ Len(resp) = 2
    /\ InFlight = {2}
    /\ resp[2].tpc = "synth"

(***************************************************************************)
(* SpecReaper: session.py, SessionRegistry and its _cleanup_loop, over a   *)
(* registry of several sessions and a clock.  Each session is kept by the  *)
(* fields the registry reads and writes.                                   *)
(***************************************************************************)
max_idle == 1800
interval == 300
ClockStep == 600
MaxClock == 3000

Sids == {1, 2}

\* Session.cancel_response on a registry entry: Task.cancel() on a task that is not done
cancel_response_entry(s) ==
    [s EXCEPT !.interrupted = TRUE,
              !.task = IF @ = "running" THEN "cancelled" ELSE @]

\* SessionRegistry.remove, for a session that was popped
remove_entry(s) ==
    [cancel_response_entry(s) EXCEPT !.conversation = <<>>, !.audio_buffer = <<>>]

is_stale_from_max_idle(now, s) == now - s.last_activity >= max_idle

\* now - s.last_activity > max_idle
is_stale(now, s) == now - s.last_activity > max_idle

\* the list `stale` of _cleanup_loop
stale(now, registry, sessions) == {sid \in registry : is_stale(now, sessions[sid])}

InitReaper ==
    /\ cfg = NoTraffic
    /\ Connected
    /\ probe = [now |-> 0, wake |-> interval, sweeps |-> 0, registry |-> Sids,
                sessions |-> [sid \in Sids |->
                                [last_activity |-> 0, conversation |-> <<>>,
                                 audio_buffer |-> <<>>, interrupted |-> FALSE,
                                 task |-> "none"]]]

ProbeOnly == UNCHANGED <<cfg, inbox, nsent, hpc, session, registered, resp, sent>>

\* time passes
ClockTick ==
    /\ probe.now + ClockStep <= MaxClock
    /\ probe' = [probe EXCEPT !.now = @ + ClockStep]
    /\ ProbeOnly

\* ws.receive() returns on the connection of session sid: touch(), then the
\* frame is a mic chunk, a user input that starts a response, or anything else
FrameReceived ==
    /\ \E sid \in Sids, kind \in {"mic", "input", "other"} :
         /\ probe.sessions[sid].task # "running"
         /\ probe' = [probe EXCEPT
              !.sessions[sid] =
                 [@ EXCEPT !.last_activity = probe.now,
                           !.audio_buffer = IF kind = "mic" THEN <<7>> ELSE @,
                           !.conversation = IF kind = "input"
                                            THEN <<Turn("user", <<Block("text", 0, 2)>>)>>
                                            ELSE @,
                           !.interrupted = IF kind = "input" THEN FALSE ELSE @,
                           !.task = IF kind = "input" THEN "running" ELSE @]]
    /\ ProbeOnly

\* the response of session sid ends
ResponseEnds ==
    /\ \E sid \in Sids :
         /\ probe.sessions[sid].task \in {"running", "cancelled"}
         /\ probe' = [probe EXCEPT !.sessions[sid].task = "done"]
    /\ ProbeOnly

\* asyncio.sleep(interval) has returned: one sweep of _cleanup_loop
Sweep ==
    /\ probe.now >= probe.wake
    /\ LET gone == stale(probe.now, probe.registry, probe.sessions)
       IN  probe' = [probe EXCEPT
                        !.wake = probe.now + interval,
                        !.sweeps = @ + 1,
                        !.registry = @ \ gone,
                        !.sessions = [sid \in Sids |->
                                         IF sid \in gone THEN remove_entry(@[sid]) ELSE @[sid]]]
    /\ ProbeOnly

NextReaper == ClockTick \/ FrameReceived \/ ResponseEnds \/ Sweep

SpecReaper == InitReaper /\ [][NextReaper]_vars

\* C26: a sweep removes exactly the registered sessions whose last frame is
\* more than max_idle old; a removed session has its response cancelled, its
\* conversation and audio buffer cleared and is out of the registry; the others
\* are left as they were.
C26_SweepRemovesExactlyIdle ==
    [][probe'.sweeps # probe.sweeps =>
          \A sid \in Sids :
              LET s == probe.sessions[sid]
                  s1 == probe'.sessions[sid]
              IN  IF sid \in probe.registry /\ probe.now - s.last_activity > max_idle
                  THEN /\ sid \notin probe'.registry
                       /\ s1.conversation = <<>> /\ s1.audio_buffer = <<>>
                       /\ s1.interrupted /\ s1.task # "running"
                       /\ s.task = "running" => s1.task = "cancelled"
                  ELSE /\ s1 = s
                       /\ sid \in probe'.registry <=> sid \in probe.registry]_vars

\* A sweep removed a session in the middle of a response and kept the other.
C26_Witness ==
    /\ probe.sweeps > 0
    /\ Cardinality(probe.registry) = 1
    /\ \E sid \in Sids \ probe.registry : probe.sessions[sid].task = "cancelled"
    /\ \E sid \in probe.registry : probe.sessions[sid].conversation # <<>>

\* what C27 calls the session's state
OwnedState(s) == <<s.conversation, s.audio_buffer, s.interrupted, s.response_task>>

\* C27: while the connection is open, every step that changes the session's
\* conversation, audio buffer, interrupted flag or response handle is a step of
\* the connection's receive loop or of a response task.
C27_OnlyReaderAndResponseWrite ==
    [][(hpc # "returned" /\ OwnedState(session') # OwnedState(session))
          => ReceiveLoop \/ Tasks]_vars

(***************************************************************************)
(* SpecTurnsLive: a client that types, sends an image or speaks, answered  *)
(* with TTS on by an LLM that may ask for a tool (which may raise).  Each  *)
(* task that can take a step eventually                                    *)
(* takes one (streams, tools and synthesis terminate), and the receive     *)
(* loop resumes when the task it awaits has ended.                         *)
(***************************************************************************)
LiveLLM ==
    [deltaTexts |-> {<<OpenTag, "x", CloseTag>>}, maxDeltas |-> 1,
     maxRounds |-> 1, maxTools |-> 1, toolOutcomes |-> {"ok", "raises"}, maxChunks |-> 1]

VoiceFrames == {Msg("audio_start"), BytesFrame(<<MIC, 7>>), Msg("audio_end")}

InitTurnsLive ==
    /\ cfg \in {Settings(TRUE, {TextFrame("object", "text_message", "ok", "-", 2),
                              Msg("image_message")}, 1, LiveLLM),
                 Settings(TRUE, VoiceFrames, 3, LiveLLM)}
    /\ Idle

SpecTurnsLive ==
    /\ InitTurnsLive /\ [][NextTurns]_vars
    /\ WF_vars(Tasks) /\ WF_vars(ResumeAfterResponse)

\* C28: whenever is_responding is true, it is eventually false again with the
\* response handle cleared, however the response ends.
C28_RespondingEnds ==
    session.is_responding ~> (~session.is_responding /\ session.response_task = 0)

\* A response that was cancelled in flight has been awaited: the flags are reset.
C28_Witness ==
    /\ hpc = "recv"
    /\ ~session.is_responding /\ session.response_task = 0
    /\ \E r \in DOMAIN resp : resp[r].pc = "cancelled"

\* C29: when select_workspace is handled every response that started before
\* has ended, and the conversation is changed by a task only in a step of the
\* response the session awaits: no turn of an earlier response is appended
\* after the switch.
C29_NoLateTurnAfterSwitch ==
    [][/\ (SelectWorkspaceStep /\ Head(inbox).f.name \in Workspaces) =>
             \A r \in DOMAIN resp : Ended(resp[r])
       /\ (session'.conversation # session.conversation /\ Tasks) =>
             LET r == session.response_task
             IN  /\ r # 0 /\ hpc = "await_response"
                 /\ ~Ended(resp[r])
                 /\ \A q \in DOMAIN resp \ {r} : resp'[q] = resp[q]]_vars

\* A workspace was selected after a response had completed: its turns are gone.
C29_Witness ==
    /\ registered
    /\ Len(resp) = 1 /\ resp[1].pc = "done"
    /\ session.workspace_name \in Workspaces
    /\ session.conversation = <<>>
    /\ sent = <<WorkspaceSelected(session.workspace_name)>>

\* C30: while session.interrupted is true the consumer writes no tts_start and
\* no audio frame and skips every segment it takes from the queue; when it
\* takes the None sentinel it ends, writing tts_end exactly when it had written
\* tts_start.
C30_InterruptedConsumerDrains ==
    [][\A r \in DOMAIN resp :
          LET t == resp[r]
              t1 == resp'[r]
          IN  /\ session.interrupted =>
                    /\ Count(t1.tout, "tts_start") <= Count(t.tout, "tts_start")
                    /\ Count(t1.tout, "audio") <= Count(t.tout, "audio")
                    /\ (t.tpc = "get" /\ t.queue # <<>> /\ t1.queue = Tail(t.queue)
                          /\ Head(t.queue) # NoneItem) =>
                            t1.tpc = "get" /\ t1.tout = t.tout
              /\ (t.tpc = "get" /\ t1.tpc = "done") =>
                    /\ t.queue # <<>> /\ Head(t.queue) = NoneItem
                    /\ t1.tout = IF Has(t.tout, "tts_start")
                                 THEN Append(t.tout, TTSEnd(r)) ELSE t.tout]_vars

\* An interrupted consumer that had started has emptied its queue of two
\* segments without an audio frame and waits for the sentinel.
C30_Witness ==
    \E r \in DOMAIN resp :
        /\ session.interrupted
        /\ resp[r].deltas = 2
        /\ resp[r].tpc = "get" /\ resp[r].queue = <<>>
        /\ Has(resp[r].tout, "tts_start")
        /\ ~Has(resp[r].tout, "audio")

(***************************************************************************)
(* handler.py: the text_delta branch of _run_claude_response over          *)
(* characters.  The model's text is cut into deltas at any character, so a *)
(* tag may arrive in two deltas.                                           *)
(***************************************************************************)
MaxPieces == 3         \* pieces (a tag, a letter, a blank, a whole block) the model's text is made of

speak_open == <<"<", "s", "p", "e", "a", "k", ">">>
speak_close == <<"<", "/", "s", "p", "e", "a", "k", ">">>

Pieces == {speak_open, speak_close, <<"x">>, <<" ">>, speak_open \o <<"x">> \o speak_close}

RECURSIVE Concat(_)
Concat(seqs) == IF seqs = <<>> THEN <<>> ELSE Head(seqs) \o Concat(Tail(seqs))

ModelTexts == {Concat(p) : p \in SeqsUpTo(Pieces, MaxPieces)}

\* str.find from index `from` (1-based); 0 when there is no occurrence
find(text, sub, from) ==
    LET S == {i \in from..(Len(text) - Len(sub) + 1) : SubSeq(text, i, i + Len(sub) - 1) = sub}
    IN  IF S = {} THEN 0 ELSE CHOOSE i \in S : \A j \in S : i <= j

\* str.replace(old, ""): every non-overlapping occurrence, from the left
RECURSIVE remove_all(_, _)
remove_all(text, old) ==
    IF text = <<>> THEN <<>>
    ELSE IF StartsWith(text, old) THEN remove_all(Drop(text, Len(old)), old)
    ELSE <<Head(text)>> \o remove_all(Tail(text), old)

\* delta.replace("<speak>", "").replace("</speak>", "")
display_text_of(delta) == remove_all(remove_all(delta, speak_open), speak_close)

\* re.search(r"<speak>(.*?)</speak>", tts_buffer, re.DOTALL): the leftmost
\* opening tag that has a closing tag after it, up to the first such closing tag
re_search(tts_buffer) ==
    LET open == find(tts_buffer, speak_open, 1)
        close == IF open = 0 THEN 0
                 ELSE find(tts_buffer, speak_close, open + Len(speak_open))
    IN  [match |-> close # 0,
         group |-> IF close = 0 THEN <<>>
                   ELSE SubSeq(tts_buffer, open + Len(speak_open), close - 1),
         end |-> IF close = 0 THEN 0 ELSE close + Len(speak_close) - 1]

\* The `while True` loop: every completed block is queued and consumed.
RECURSIVE speak_loop(_, _)
speak_loop(tts_buffer, queue) ==
    LET m == re_search(tts_buffer)
        speak_text == strip(m.group)
    IN  IF ~m.match THEN [tts_buffer |-> tts_buffer, queue |-> queue]
        ELSE speak_loop(Drop(tts_buffer, m.end),
                        IF speak_text # <<>> THEN Append(queue, speak_text) ELSE queue)

accumulate_delta_only(tts_buffer, delta) == delta

\* tts_buffer += delta
accumulate(tts_buffer, delta) == tts_buffer \o delta

\* One text_delta event: what is shown, what is buffered and queued.
text_delta(p, delta) ==
    LET ex == speak_loop(accumulate(p.tts_buffer, delta), p.queue)
    IN  [p EXCEPT !.pos = @ + Len(delta),
                  !.shown = @ \o display_text_of(delta),
                  !.tts_buffer = IF cfg.tts THEN ex.tts_buffer ELSE @,
                  !.queue = IF cfg.tts THEN ex.queue ELSE @]

InitSpeak ==
    /\ cfg = [NoTraffic EXCEPT !.tts = TRUE]
    /\ Connected
    /\ probe \in [text : ModelTexts, pos : {0}, shown : {<<>>},
                  tts_buffer : {<<>>}, queue : {<<>>}]

\* The stream delivers the next characters of the text as one delta.
TextDeltaEvent ==
    /\ \E n \in 1..(Len(probe.text) - probe.pos) :
         probe' = text_delta(probe, SubSeq(probe.text, probe.pos + 1, probe.pos + n))
    /\ ProbeOnly

NextSpeak == TextDeltaEvent

SpecSpeak == InitSpeak /\ [][NextSpeak]_vars

\* The successive leftmost non-greedy matches of the whole text: their inner
\* texts, trimmed, the empty ones left out; and what follows the last match.
RECURSIVE SpeakTexts(_)
SpeakTexts(text) ==
    LET m == re_search(text)
    IN  IF ~m.match THEN <<>>
        ELSE (IF strip(m.group) # <<>> THEN <<strip(m.group)>> ELSE <<>>)
             \o SpeakTexts(Drop(text, m.end))

RECURSIVE AfterMatches(_)
AfterMatches(text) ==
    LET m == re_search(text)
    IN  IF ~m.match THEN text ELSE AfterMatches(Drop(text, m.end))

\* C31: however the text is cut into deltas, what has been queued for the TTS
\* consumer after any delta is, in order, the trimmed non-empty inner texts of
\* the successive leftmost non-greedy <speak>(.*?)</speak> matches of the raw
\* text received so far; text outside the matches and an unterminated trailing
\* <speak> stay in the buffer and are not queued.
C31_QueuedSpeakTexts ==
    LET received == SubSeq(probe.text, 1, probe.pos)
    IN  /\ probe.queue = SpeakTexts(received)
        /\ probe.tts_buffer = AfterMatches(received)

\* The whole text has arrived: two blocks were queued, a tag came in two deltas
\* (it is still on display), and an unterminated <speak> stays in the buffer.
C31_Witness ==
    /\ probe.pos = Len(probe.text)
    /\ probe.queue = << <<"x">>, <<"x">> >>
    /\ probe.tts_buffer = speak_open
    /\ probe.shown # display_text_of(probe.text)

\* C32: the text on display for a response, the concatenation of its
\* response_delta texts, is the raw text without its <speak> and </speak> tags,
\* however the text is cut into deltas.
C32_DisplayWithoutTags ==
    probe.pos = Len(probe.text) => probe.shown = display_text_of(probe.text)

(***************************************************************************)
(* The recording path of the receive loop on its own: audio_start, binary  *)
(* frames, audio_end, any other message, and the registry removing the     *)
(* session.  probe.since holds the binary frames received since the most   *)
(* recent audio_start and before the audio_end that followed it;           *)
(* probe.pcm is what stt.transcribe was last called with.                  *)
(***************************************************************************)
MaxMicFrames == 5      \* frames the client sends

MicInputs == {<<MIC>>, <<MIC, 7>>, <<MIC, 8, 9>>, <<TTS, 7>>}

InitMic ==
    /\ cfg = [NoTraffic EXCEPT !.stt = TRUE]
    /\ Connected
    /\ probe = [session |-> NewSession, received |-> 0, frame |-> <<>>,
                open |-> FALSE, since |-> <<>>, removed |-> FALSE,
                called |-> FALSE, pcm |-> <<>>]

MicReceive == probe.received < MaxMicFrames

\* case AudioStart()
MicAudioStart ==
    /\ MicReceive
    /\ probe' = [probe EXCEPT
                    !.session = clear_audio_buffer([touch(@) EXCEPT !.is_recording = TRUE]),
                    !.received = @ + 1, !.frame = <<>>,
                    !.open = TRUE, !.since = <<>>, !.removed = FALSE]
    /\ ProbeOnly

MicBinary ==
    /\ MicReceive
    /\ \E data \in MicInputs :
         probe' = [probe EXCEPT
                      !.session = _handle_binary(touch(@), data),
                      !.received = @ + 1, !.frame = data,
                      !.since = IF probe.open THEN Append(@, data) ELSE @]
    /\ ProbeOnly

\* case AudioEnd(), up to the call of stt.transcribe
MicAudioEnd ==
    /\ MicReceive
    /\ LET s1 == [touch(probe.session) EXCEPT !.is_recording = FALSE]
           audio_data == s1.audio_buffer
       IN  probe' = [probe EXCEPT
                        !.session = clear_audio_buffer(s1),
                        !.received = @ + 1, !.frame = <<>>,
                        !.open = FALSE,
                        !.called = ~returns_early(audio_data, cfg.stt),
                        !.pcm = IF returns_early(audio_data, cfg.stt) THEN <<>> ELSE audio_data]
    /\ ProbeOnly

\* case Ping(), or any other message that leaves the recording alone
MicOther ==
    /\ MicReceive
    /\ probe' = [probe EXCEPT !.session = touch(@), !.received = @ + 1, !.frame = <<>>]
    /\ ProbeOnly

\* The reaper or the shutdown removes the session while the connection is open.
MicRemove ==
    /\ ~probe.removed
    /\ probe' = [probe EXCEPT !.session = remove_session(@), !.removed = TRUE]
    /\ ProbeOnly

NextMic == MicAudioStart \/ MicBinary \/ MicAudioEnd \/ MicOther \/ MicRemove

SpecMic == InitMic /\ [][NextMic]_vars

\* The payloads of the frames of at least 2 bytes whose first byte is 0x01.
RECURSIVE Payloads(_)
Payloads(frames) ==
    IF frames = <<>> THEN <<>>
    ELSE (IF Len(Head(frames)) >= 2 /\ Head(frames)[1] = 1 THEN Tail(Head(frames)) ELSE <<>>)
         \o Payloads(Tail(frames))

IsMicAudioEnd == probe.open /\ ~probe'.open

IsMicBinary == probe'.frame # <<>> /\ probe'.received = probe.received + 1

Unbuffered(data) == ~probe.open \/ Len(data) < 2 \/ data[1] # 1

Completed(r) ==
    /\ r = session.response_task /\ resp[r].pc = "done"
    /\ ~session.interrupted /\ registered

\* C34: when a response completes without interruption or failure after k tool
\* rounds, the conversation holds, after the user turn, k pairs (assistant turn
\* with tool_use, user turn with tool_result) and one final assistant turn,
\* 2k + 1 turns, whatever the model's final turn contains.
C34_TurnsOfAResponse ==
    \A r \in DOMAIN resp :
        Completed(r) =>
            LET conv == session.conversation
                k == resp[r].tool_rounds
            IN  /\ Len(conv) = 1 + 2 * k + 1
                /\ \A i \in 1..k :
                      /\ conv[2 * i].role = "assistant"
                      /\ conv[2 * i + 1].role = "user"
                /\ conv[Len(conv)].role = "assistant"

(***************************************************************************)
(* tool_executor.py: the timeout of _tool_bash.  A command that passed the *)
(* filter runs for `duration` seconds when left alone.                     *)
(***************************************************************************)
MaxSeconds == 40       \* longest timeout asked for and longest command, in seconds

command_timeout == 30

Seconds == {s \in 0..MaxSeconds : s % 10 \in {0, 1, 9}}

\* inp.get("timeout", self.command_timeout)
bash_timeout(inp, configured) == IF inp.given THEN inp.timeout ELSE configured

\* asyncio.wait_for(proc.communicate(), timeout=timeout): the seconds waited
\* and whether TimeoutError was raised (first: which of the two comes first
\* when the command ends at the very moment the timeout expires)
wait_for(duration, timeout, first) ==
    LET expired == \/ timeout <= 0
                   \/ duration > timeout
                   \/ duration = timeout /\ first = "timeout"
    IN  [waited |-> IF expired THEN Max(timeout, 0) ELSE duration, expired |-> expired]

\* _tool_bash from the subprocess on, for a command that exits with 0
bash_wait(inp, configured, duration, first) ==
    LET timeout == bash_timeout(inp, configured)
        w == wait_for(duration, timeout, first)
    IN  IF w.expired
        THEN [success |-> FALSE, output |-> "Command timed out after", t |-> timeout,
              waited |-> w.waited]
        ELSE [success |-> TRUE, output |-> "stdout", t |-> 0, waited |-> w.waited]

InitTimeout ==
    /\ cfg = NoTraffic
    /\ Connected
    /\ probe \in {[inp |-> i, configured |-> c, duration |-> d, called |-> FALSE,
                   result |-> [success |-> FALSE, output |-> "-", t |-> 0, waited |-> 0]] :
                     i \in {[given |-> FALSE, timeout |-> 0]}
                           \cup {[given |-> TRUE, timeout |-> s] : s \in Seconds},
                     c \in {10, command_timeout},
                     d \in Seconds}

BashWait ==
    /\ ~probe.called
    /\ \E first \in {"exit", "timeout"} :
         probe' = [probe EXCEPT
                      !.called = TRUE,
                      !.result = bash_wait(probe.inp, probe.configured, probe.duration, first)]
    /\ ProbeOnly

NextTimeout == BashWait

SpecTimeout == InitTimeout /\ [][NextTimeout]_vars

\* The timeout the call is meant to have: the input's when given, the
\* configured command_timeout otherwise.
EffectiveTimeout == IF probe.inp.given THEN probe.inp.timeout ELSE probe.configured

\* C35: a bash invocation waits at most its effective timeout (the input's
\* `timeout` when given, the configured command_timeout otherwise), the
\* effective timeout never exceeds the configured bound, and on expiry the call
\* fails with "Command timed out after <t>s".
C35_BashTimeoutBounded ==
    probe.called =>
        /\ probe.result.waited <= EffectiveTimeout
        /\ probe.result.waited <= probe.configured
        /\ probe.duration > EffectiveTimeout =>
              /\ ~probe.result.success
              /\ probe.result.output = "Command timed out after"
              /\ probe.result.t = EffectiveTimeout

(***************************************************************************)
(* A client that goes on sending while a response is in flight: up to two  *)
(* frames wait in the socket.                                              *)
(***************************************************************************)
QueueFrames ==
    {Msg("interrupt"), Msg("ping"), TextFrame("object", "select_workspace", "ok", "demo", 0),
     Msg("audio_start"), BytesFrame(<<MIC, 7>>),
     TextFrame("object", "text_message", "ok", "-", 2)}

QueueLLM ==
    [deltaTexts |-> {<<"x">>}, maxDeltas |-> 1, maxRounds |-> 0, maxTools |-> 0,
     toolOutcomes |-> {"ok"}, maxChunks |-> 0]

InitQueue ==
    /\ cfg = [Settings(FALSE, QueueFrames, 4, QueueLLM) EXCEPT
                 !.maxInputs = 2, !.maxPending = 2]
    /\ Idle

NextQueue ==
    \/ \E f \in cfg.frames : ClientSend(f)
    \/ HandlePing \/ HandleInterrupt \/ HandleSelectWorkspace
    \/ HandleAudioStart \/ HandleBinary \/ HandleTextMessage
    \/ ResumeAfterResponse \/ ResponseTask \/ Registry

SpecQueue == InitQueue /\ [][NextQueue]_vars

\* C36: while a response is in flight the receive loop reads no frame: a frame
\* leaves the socket only while is_responding is false and no response task is
\* referenced, a frame sent during a response only after that response has
\* ended, and frames leave the socket in the order in which they were sent.
C36_NoFrameReadDuringResponse ==
    [][inbox' # inbox =>
          \/ Len(inbox') = Len(inbox) + 1 /\ SubSeq(inbox', 1, Len(inbox)) = inbox
          \/ /\ inbox # <<>> /\ inbox' = Tail(inbox)
             /\ ~session.is_responding /\ session.response_task = 0
             /\ Head(inbox).during # 0 =>
                   resp[Head(inbox).during].pc \in {"done", "cancelled", "failed"}]_vars

\* A ping that waited behind the text message has been answered after the
\* response ended, and a text message sent during that response still waits.
C36_Witness ==
    /\ hpc = "recv" /\ ~session.is_responding
    /\ Len(resp) = 1 /\ resp[1].pc = "done"
    /\ sent = <<Pong>>
    /\ Len(inbox) = 1 /\ inbox[1].during = 1 /\ inbox[1].f.type = "text_message"

\* C37: when a response has ended (is_responding is false again, or a later
\* response is the one in flight), the TTS consumer task created for it has
\* terminated, whatever the outcome of the response; so no consumer of an
\* earlier response is alive during a later response.
C37_ConsumerEndsWithResponse ==
    \A r \in DOMAIN resp :
        (~session.is_responding \/ r # session.response_task) =>
            resp[r].tpc \in {"none", "done", "cancelled"}

\* C38: after the session has been removed from the registry (by the reaper or
\* at shutdown) its connection handler takes no further frame from the socket,
\* other than the close of the connection, and starts no further response.
C38_RemovedSessionIsQuiet ==
    [][~registered =>
          /\ ~(/\ inbox # <<>> /\ inbox' = Tail(inbox)
               /\ Head(inbox).f.kind # "disconnect")
          /\ Len(resp') = Len(resp)]_vars

(***************************************************************************)
(* A client that records: audio_start, audio_end, microphone and other     *)
(* binary frames, pings and a typed message, in any order.                 *)
(***************************************************************************)
RecordingFrames ==
    {Msg("audio_start"), Msg("audio_end"), BytesFrame(<<MIC, 7>>), BytesFrame(<<TTS, 7>>),
     Msg("ping"), TextFrame("object", "text_message", "ok", "-", 1)}

InitRecording ==
    /\ cfg = [Settings(FALSE, RecordingFrames, 5, QueueLLM) EXCEPT !.stt = TRUE]
    /\ Idle

NextRecording ==
    \/ \E f \in cfg.frames : ClientSend(f)
    \/ HandlePing \/ HandleAudioStart \/ HandleBinary \/ HandleAudioEnd
    \/ HandleTextMessage \/ ResumeAfterResponse \/ ResponseTask \/ Registry

SpecRecording == InitRecording /\ [][NextRecording]_vars

\* C39: whenever the receive loop waits for a frame and is_recording is false,
\* the audio buffer is empty.
C39_IdleBufferEmpty ==
    (hpc = "recv" /\ ~session.is_recording) => session.audio_buffer = <<>>

\* A recording with audio has been transcribed and answered, a frame received
\* after it has been handled, and the receive loop waits for the next frame.
C39_Witness ==
    /\ hpc = "recv" /\ ~session.is_recording /\ session.audio_buffer = <<>>
    /\ Len(resp) = 1 /\ resp[1].pc = "done"
    /\ session.conversation # <<>>
    /\ session.conversation[1].content = <<Block("text", 0, TranscriptChars)>>
    /\ nsent = 4 /\ inbox = <<>>

====
